---------------------------- MODULE Spec2Model ----------------------------
(***************************************************************************)
(* A model of py8dis: the move manager (binary <-> runtime addresses),     *)
(* the classifications array, and the 6502 tracer.                         *)
(*                                                                         *)
(* The address space of the program is 0 .. 0xFFFF.  The model keeps the   *)
(* code's arithmetic and guards and scales the address space to            *)
(* 0 .. MemSize-1.  Byte values keep their width (0 .. 255).               *)
(***************************************************************************)
EXTENDS Integers, Sequences, FiniteSets, TLC

\* ------------------------------------------------------------------ bounds
\* Size of the address space (0x10000 in the program).
MemSize == 6
\* Number of add_move calls a run makes.
MaxMoves == 2
\* Nesting depth of moved() regions.
MaxDepth == 2

\* Arguments a script passes to add_move (the asserts of add_move decide
\* which of them are accepted).
MoveDests == {0, 2}
MoveSources == {2, 3}
MoveLengths == {1, 2}

Addrs == 0 .. MemSize - 1

VARIABLES
    move_definitions,        \* movemanager.move_definitions: <<dest, source, length>>
    move_id_for_binary_addr, \* movemanager.move_id_for_binary_addr
    active_move_ids,         \* movemanager.active_move_ids
    regions,                 \* the moved() with-blocks entered and not yet left
    classifications,         \* disassembly.classifications
    memory_binary,           \* the loaded bytes (None where nothing is loaded)
    disassembly_range,       \* config.disassembly_range: <<start, end>> of the image
    entry_points,            \* the tracer's worklist of binary addresses
    references,              \* <<runtime_addr, binary_addr>>: labels[runtime_addr] is referenced from binary_addr
    labels,                  \* the runtime addresses that have an entry in labelmanager.labels
    annotations,             \* number of "overlapping" annotations recorded per binary address
    jsr_hooks,               \* trace6502.jsr_hooks: target runtime address -> hook
    phase,                   \* position of the control script
    trace_done,              \* trace.cpu.trace_done
    constants,               \* disassembly.constants
    config_loop_limit,       \* config._loop_limit
    user_label_maker_hook,   \* disassembly.user_label_maker_hook
    state,                   \* the CpuState the opcodes' update_cpu_state works on
    updates,                 \* how many update_cpu_state calls it has had
    optional_labels,         \* disassembly.optional_labels: runtime address -> (name, base_addr, definable_inline)
    label_objects,           \* labelmanager.labels[r]: the Label of runtime address r (as new where r has none)
    resolved,                \* what str() of the LazyStrings has returned: <<lazy, name>>
    outputs,                 \* the definitions each run of emit has output
    expressions,             \* classification.expressions: binary address -> expression
    pending_assertions,      \* the assembler's _pending_assertions: expression -> value
    listing,                 \* the operands of the lines emit has output
    script_pos,              \* the last call made of the script's label calls
    lazy_names,              \* the LazyStrings get_label has returned: <<runtime_addr, binary_addr, move_id>>
    raising,                 \* an exception is propagating out of with-blocks
    last                     \* the last operation, its arguments and result

moveVars == <<move_definitions, move_id_for_binary_addr, active_move_ids, regions>>
classVars == <<classifications>>
traceVars == <<memory_binary, disassembly_range, entry_points, references,
               labels, annotations, jsr_hooks, phase, trace_done>>
constVars == <<constants, config_loop_limit, user_label_maker_hook, state, updates>>
labelVars == <<optional_labels, label_objects, lazy_names, resolved, script_pos>>
emitVars == <<outputs>>
exprVars == <<expressions, pending_assertions, listing>>
outputVars == <<constVars, labelVars, emitVars, exprVars>>
vars == <<moveVars, classVars, traceVars, outputVars, raising, last>>

\* ------------------------------------------------------------ move manager
base_move_id == 0

\* utils.is_valid_addr: a BinaryAddr (0 .. 0xFFFF in the program).
is_valid_addr(a) == 0 <= a /\ a < MemSize

move_dest(m) == m[1]
move_source(m) == m[2]
move_length(m) == m[3]

\* The asserts at the head of add_move.
add_move_asserts(dest, source, length) ==
    /\ is_valid_addr(dest)
    /\ is_valid_addr(source)
    /\ is_valid_addr(dest + length)
    /\ is_valid_addr(source + length)
    /\ dest # source
    /\ length > 0

\* Faulty variant of stamp_move_id: the loop stops one byte short.
stamp_move_id_short(owner, source, length, move_id) ==
    [b \in DOMAIN owner |->
        IF source <= b /\ b < source + length - 1 THEN move_id ELSE owner[b]]

\* for i in range(length): move_id_for_binary_addr[source + i] = move_id
stamp_move_id(owner, source, length, move_id) ==
    [b \in DOMAIN owner |->
        IF source <= b /\ b < source + length THEN move_id ELSE owner[b]]

is_valid_move_id(defs, move_id) ==
    move_id = base_move_id \/ (0 <= move_id /\ move_id < Len(defs))

\* move ids are indices into the Python list: id k is defs[k + 1].
move_def(defs, move_id) == defs[move_id + 1]

\* The range assertion inside b2r.
b2r_assert(defs, owner, binary_addr) ==
    LET m == move_def(defs, owner[binary_addr])
    IN  move_source(m) <= binary_addr
        /\ binary_addr < move_source(m) + move_length(m)

\* Faulty variant of b2r_of: the source offset is not subtracted.
b2r_of_no_offset(defs, owner, binary_addr) ==
    LET m == move_def(defs, owner[binary_addr])
    IN  move_dest(m) + binary_addr

b2r_of(defs, owner, binary_addr) ==
    LET m == move_def(defs, owner[binary_addr])
    IN  move_dest(m) + (binary_addr - move_source(m))

b2r(binary_addr) ==
    b2r_of(move_definitions, move_id_for_binary_addr, binary_addr)

\* move_ids_for_runtime_addr: the list built by walking the binary addresses
\* in ascending order and appending the owner of every address that is not
\* owned by BASE and maps to runtime_addr.
RECURSIVE move_ids_walk(_, _, _, _)
move_ids_walk(defs, owner, runtime_addr, binary_addr) ==
    IF binary_addr >= MemSize THEN <<>>
    ELSE LET rest == move_ids_walk(defs, owner, runtime_addr, binary_addr + 1)
         IN  IF owner[binary_addr] # base_move_id
                /\ b2r_of(defs, owner, binary_addr) = runtime_addr
             THEN <<owner[binary_addr]>> \o rest
             ELSE rest

move_ids_for_runtime_addr(defs, owner, runtime_addr) ==
    move_ids_walk(defs, owner, runtime_addr, 0)

InSeq(x, s) == \E i \in 1 .. Len(s) : s[i] = x

\* for move_id in active_move_ids[::-1]: the first one in relevant, or none.
RECURSIVE scan_active(_, _, _)
scan_active(active, relevant, i) ==
    IF i = 0 THEN <<>>
    ELSE IF InSeq(active[i], relevant) THEN <<active[i]>>
    ELSE scan_active(active, relevant, i - 1)

\* Faulty variant of select_active: the stack is scanned from the bottom.
RECURSIVE scan_active_up(_, _, _)
scan_active_up(active, relevant, i) ==
    IF i > Len(active) THEN <<>>
    ELSE IF InSeq(active[i], relevant) THEN <<active[i]>>
    ELSE scan_active_up(active, relevant, i + 1)

select_active_from_bottom(active, relevant) == scan_active_up(active, relevant, 1)

select_active(active, relevant) == scan_active(active, relevant, Len(active))

\* r2b: <<binary_addr, move_id>>, or <<>> for (None, None).
r2b_of(defs, owner, active, runtime_addr) ==
    LET relevant == move_ids_for_runtime_addr(defs, owner, runtime_addr)
        selected == IF Len(relevant) = 1 THEN <<relevant[1]>>
                    ELSE select_active(active, relevant)
    IN  IF Len(relevant) = 0 THEN <<runtime_addr, base_move_id>>
        ELSE IF selected = <<>> THEN <<>>
        ELSE LET m == move_def(defs, selected[1])
             IN  <<move_source(m) + (runtime_addr - move_dest(m)), selected[1]>>

r2b(runtime_addr) ==
    r2b_of(move_definitions, move_id_for_binary_addr, active_move_ids, runtime_addr)

\* moved(): entry appends the id; the finally clause asserts the top of the
\* stack is the id and pops it.
moved_enter(active, move_id) == Append(active, move_id)

moved_exit_assert(active, move_id) ==
    Len(active) > 0 /\ active[Len(active)] = move_id

\* Faulty variant of moved_exit: the id is not popped.
moved_exit_no_pop(active, move_id) == active

moved_exit(active, move_id) == SubSeq(active, 1, Len(active) - 1)

\* ---------------------------------------------------- classifications array
\* An unclassified entry of disassembly.classifications.
None == [k |-> "none", len |-> 0]
\* The sentinel marking the second and later bytes of a classification.
inside_a_classification == [k |-> "inside", len |-> 0]

\* classification.Byte(length), Word(length), String(length) and an
\* instruction (trace6502.Opcode) of the given length.
Byte(length) == [k |-> "byte", len |-> length]
Word(length) == [k |-> "word", len |-> length]
String(length) == [k |-> "string", len |-> length]
Instruction(length) == [k |-> "instruction", len |-> length]

\* An entry that is a classification object (neither None nor the sentinel).
is_object(c) == c # None /\ c # inside_a_classification

\* The constructors of classification.py assert length > 0.
constructor_assert(c) == c.len > 0

\* is_classified(binary_addr, length): the slice stops at the end of the array.
is_classified_first_byte(cls, binary_addr, length) == cls[binary_addr] # None

is_classified_heads_only(cls, binary_addr, length) ==
    \E b \in Addrs : binary_addr <= b /\ b < binary_addr + length /\ is_object(cls[b])

is_classified(cls, binary_addr, length) ==
    \E b \in Addrs : binary_addr <= b /\ b < binary_addr + length /\ cls[b] # None

\* The writes of add_classification: the head, then the sentinels in
\* ascending order; an index of MemSize raises IndexError after the writes
\* below it have been made.
add_classification(cls, binary_addr, c) ==
    [b \in Addrs |->
        IF b = binary_addr THEN c
        ELSE IF binary_addr < b /\ b < binary_addr + c.len
             THEN inside_a_classification
             ELSE cls[b]]

add_classification_raises(binary_addr, c) == binary_addr + c.len > MemSize

\* A negative index of a Python list counts from the end.
list_index(i) == IF i < 0 THEN i + MemSize ELSE i

\* The loop of split_classification that walks back over the sentinels to
\* the head of the classification.
RECURSIVE walk_back(_, _)
walk_back(cls, binary_addr) ==
    IF binary_addr > -MemSize /\ cls[list_index(binary_addr)] = inside_a_classification
    THEN walk_back(cls, binary_addr - 1)
    ELSE binary_addr

\* split_classification returns without a change when the address is at or
\* past the end of memory or is not inside a classification.
split_returns_early(cls, binary_addr) ==
    \/ binary_addr >= MemSize
    \/ cls[binary_addr] # inside_a_classification

\* The entry the walk stops at has a length() and the Byte built from the
\* remainder passes the constructor's assert.
split_asserts(cls, split_addr) ==
    LET binary_addr == walk_back(cls, split_addr)
        first_split_length == split_addr - binary_addr
    IN  /\ binary_addr > -MemSize
        /\ is_object(cls[list_index(binary_addr)])
        /\ constructor_assert(Byte(cls[list_index(binary_addr)].len - first_split_length))

\* Faulty variant of split_classification: the head keeps its classification
\* and only the second part is written.
split_classification_tail_only(cls, split_addr) ==
    LET binary_addr == walk_back(cls, split_addr)
        first_split_length == split_addr - binary_addr
    IN  [b \in Addrs |->
            IF b = split_addr
            THEN Byte(cls[list_index(binary_addr)].len - first_split_length)
            ELSE cls[b]]

\* The two writes of split_classification.
split_classification(cls, split_addr) ==
    LET binary_addr == walk_back(cls, split_addr)
        first_split_length == split_addr - binary_addr
    IN  [b \in Addrs |->
            IF b = list_index(binary_addr) THEN Byte(first_split_length)
            ELSE IF b = split_addr
                 THEN Byte(cls[list_index(binary_addr)].len - first_split_length)
                 ELSE cls[b]]

\* --------------------------------------------------------------- constants
\* constant.Constant(value, name, comment, align, format)
Constant(value, name, comment, format) ==
    [value |-> value, name |-> name, comment |-> comment, format |-> format]

\* The index of the first constant of the list with the name, 0 if none.
first_named(cs, name) ==
    IF \E i \in 1 .. Len(cs) : cs[i].name = name
    THEN CHOOSE i \in 1 .. Len(cs) :
            /\ cs[i].name = name
            /\ \A j \in 1 .. i - 1 : cs[j].name # name
    ELSE 0

\* The assert of add_constant: the constant found has the value.
add_constant_assert(cs, value, name) ==
    first_named(cs, name) # 0 => cs[first_named(cs, name)].value = value

\* add_constant where the search matches on name and value together.
add_constant_by_value(cs, value, name, comment, format) ==
    IF \E i \in 1 .. Len(cs) : cs[i].name = name /\ cs[i].value = value
    THEN cs
    ELSE Append(cs, Constant(value, name, comment, format))

\* add_constant(value, name, comment, align, format): nothing is added when
\* a constant of the name exists.
add_constant(cs, value, name, comment, format) ==
    IF first_named(cs, name) # 0
    THEN cs
    ELSE Append(cs, Constant(value, name, comment, format))

\* ----------------------------------------------------------------- actions
NoOp == [op |-> "none"]

InitMoves ==
    /\ move_definitions = << <<0, 0, MemSize>> >>
    /\ move_id_for_binary_addr = [b \in Addrs |-> base_move_id]
    /\ active_move_ids = <<>>
    /\ regions = <<>>
    /\ raising = FALSE
    /\ last = NoOp

InitClassifications == classifications = [b \in Addrs |-> None]

\* Python's None where the other values are integers (a byte that is not
\* loaded, a successor that is not traced).
NoneInt == -1

\* A target with no entry in jsr_hooks gets simple_jsr_hook.
NoHooks == [r \in {} |-> "simple"]

InitTrace ==
    /\ memory_binary = [b \in Addrs |-> NoneInt]
    /\ disassembly_range = <<NoneInt, NoneInt>>
    /\ entry_points = <<>>
    /\ references = {}
    /\ labels = {}
    /\ annotations = [b \in Addrs |-> 0]
    /\ jsr_hooks = NoHooks
    /\ phase = "script"
    /\ trace_done = FALSE

\* add_move(dest, source, length); a failing assert raises before any write.
AddMove(dest, source, length) ==
    /\ ~raising
    /\ Len(move_definitions) <= MaxMoves
    /\ IF add_move_asserts(dest, source, length)
       THEN /\ move_definitions' = Append(move_definitions, <<dest, source, length>>)
            /\ move_id_for_binary_addr' =
                  stamp_move_id(move_id_for_binary_addr, source, length,
                                Len(move_definitions))
            /\ last' = [op |-> "add_move", val |-> Len(move_definitions)]
            /\ UNCHANGED raising
       ELSE /\ raising' = TRUE
            /\ last' = [op |-> "add_move_failed"]
            /\ UNCHANGED <<move_definitions, move_id_for_binary_addr>>
    /\ UNCHANGED <<active_move_ids, regions>>
    /\ UNCHANGED <<classVars, traceVars, outputVars>>

\* with moved(move_id): entry.
MovedEnter(move_id) ==
    /\ ~raising
    /\ Len(regions) < MaxDepth
    /\ IF is_valid_move_id(move_definitions, move_id)
       THEN /\ active_move_ids' = moved_enter(active_move_ids, move_id)
            /\ regions' = Append(regions, move_id)
            /\ last' = [op |-> "moved_enter", val |-> move_id]
            /\ UNCHANGED raising
       ELSE /\ raising' = TRUE
            /\ last' = [op |-> "moved_enter_failed"]
            /\ UNCHANGED <<active_move_ids, regions>>
    /\ UNCHANGED <<move_definitions, move_id_for_binary_addr>>
    /\ UNCHANGED <<classVars, traceVars, outputVars>>

\* The finally clause of the innermost region; the block is left whether or
\* not the clause's assert holds.
MovedFinally ==
    LET move_id == regions[Len(regions)]
    IN  /\ regions' = SubSeq(regions, 1, Len(regions) - 1)
        /\ IF moved_exit_assert(active_move_ids, move_id)
           THEN /\ active_move_ids' = moved_exit(active_move_ids, move_id)
                /\ UNCHANGED raising
           ELSE /\ raising' = TRUE
                /\ UNCHANGED active_move_ids

\* The body of the innermost region returns normally.
MovedLeave ==
    /\ ~raising
    /\ regions # <<>>
    /\ MovedFinally
    /\ last' = [op |-> "moved_leave", val |-> regions[Len(regions)]]
    /\ UNCHANGED <<move_definitions, move_id_for_binary_addr>>
    /\ UNCHANGED <<classVars, traceVars, outputVars>>

\* The body of the innermost region raises (a JSR hook, a failed assert).
BodyRaises ==
    /\ ~raising
    /\ regions # <<>>
    /\ raising' = TRUE
    /\ last' = [op |-> "raise"]
    /\ UNCHANGED <<move_definitions, move_id_for_binary_addr, active_move_ids, regions>>
    /\ UNCHANGED <<classVars, traceVars, outputVars>>

\* The exception leaves the innermost region.
MovedUnwind ==
    /\ raising
    /\ regions # <<>>
    /\ MovedFinally
    /\ raising' = TRUE
    /\ last' = [op |-> "moved_unwind", val |-> regions[Len(regions)]]
    /\ UNCHANGED <<move_definitions, move_id_for_binary_addr>>
    /\ UNCHANGED <<classVars, traceVars, outputVars>>

\* The script catches the exception at the current nesting level.
Caught ==
    /\ raising
    /\ raising' = FALSE
    /\ last' = [op |-> "caught"]
    /\ UNCHANGED <<move_definitions, move_id_for_binary_addr, active_move_ids, regions>>
    /\ UNCHANGED <<classVars, traceVars, outputVars>>

\* A call of b2r.
CallB2r(binary_addr) ==
    /\ ~raising
    /\ IF b2r_assert(move_definitions, move_id_for_binary_addr, binary_addr)
       THEN last' = [op |-> "b2r", arg |-> binary_addr, val |-> b2r(binary_addr)]
       ELSE last' = [op |-> "b2r_failed", arg |-> binary_addr]
    /\ UNCHANGED <<move_definitions, move_id_for_binary_addr, active_move_ids,
                   regions, raising>>
    /\ UNCHANGED <<classVars, traceVars, outputVars>>

\* A call of r2b.
CallR2b(runtime_addr) ==
    /\ ~raising
    /\ last' = [op |-> "r2b", arg |-> runtime_addr, val |-> r2b(runtime_addr)]
    /\ UNCHANGED <<move_definitions, move_id_for_binary_addr, active_move_ids,
                   regions, raising>>
    /\ UNCHANGED <<classVars, traceVars, outputVars>>

NextMoves ==
    \/ \E d \in MoveDests, s \in MoveSources, n \in MoveLengths : AddMove(d, s, n)
    \/ \E id \in 0 .. MaxMoves + 1 : MovedEnter(id)
    \/ MovedLeave
    \/ BodyRaises
    \/ MovedUnwind
    \/ Caught
    \/ \E b \in Addrs : CallB2r(b)
    \/ \E r \in Addrs : CallR2b(r)

\* The move ids a Label keeps names under.
MoveIds == 0 .. MaxMoves

\* The addresses a label can have: 0x10000 is valid for labels.
LabelAddrs == 0 .. MemSize

\* Label.__init__
Label ==
    [explicit_names |-> [m \in MoveIds |-> <<>>],
     expressions |-> [m \in MoveIds |-> <<>>],
     local_labels |-> [m \in MoveIds |-> <<>>],
     emit_opportunities |-> {},
     definable_inline |-> TRUE]

\* user_label_maker_hook = None
NoHook == "none"

\* CpuState.clear(): A, X and Y are (value if known, address of the value if
\* set by an immediate load), the flags are True/False if known.
CpuState ==
    [a |-> <<NoneInt, NoneInt>>, x |-> <<NoneInt, NoneInt>>,
     y |-> <<NoneInt, NoneInt>>,
     n |-> "None", v |-> "None", d |-> "None", i |-> "None",
     z |-> "None", c |-> "None"]

\* config._loop_limit as imported.
loop_limit == 32

InitOutput ==
    /\ constants = <<>>
    /\ config_loop_limit = loop_limit
    /\ user_label_maker_hook = NoHook
    /\ state = CpuState
    /\ updates = 0
    /\ optional_labels = [r \in {} |-> <<>>]
    /\ label_objects = [r \in LabelAddrs |-> Label]
    /\ lazy_names = {}
    /\ resolved = {}
    /\ outputs = <<>>
    /\ expressions = [b \in {} |-> ""]
    /\ pending_assertions = [e \in {} |-> <<>>]
    /\ listing = <<>>
    /\ script_pos = 0

\* The state of the modules after import.
Init == InitMoves /\ InitClassifications /\ InitTrace /\ InitOutput

Spec == Init /\ [][NextMoves]_vars

\* -------------------------------------------- classifications array actions
\* Classifications a script asks for (byte(), word(), string()).
UserClassifications == {Byte(1), Byte(2), Word(2), String(3)}

\* add_classification(binary_addr, classification): the assert precedes the
\* writes; the writes stop with IndexError at the end of the array.
AddClassification(binary_addr, c) ==
    /\ ~raising
    /\ IF is_classified(classifications, binary_addr, c.len)
       THEN /\ raising' = TRUE
            /\ UNCHANGED classifications
       ELSE /\ classifications' = add_classification(classifications, binary_addr, c)
            /\ raising' = add_classification_raises(binary_addr, c)
    /\ last' = [op |-> "add_classification", arg |-> binary_addr, c |-> c,
                before |-> classifications]
    /\ UNCHANGED <<moveVars, traceVars, outputVars>>

\* split_classification(binary_addr), as isolate_range calls it for the
\* start and the end of a range.
SplitClassification(binary_addr) ==
    /\ ~raising
    /\ IF split_returns_early(classifications, binary_addr)
       THEN UNCHANGED <<classifications, raising>>
       ELSE IF split_asserts(classifications, binary_addr)
            THEN /\ classifications' = split_classification(classifications, binary_addr)
                 /\ UNCHANGED raising
            ELSE /\ raising' = TRUE
                 /\ UNCHANGED classifications
    /\ last' = [op |-> "split_classification", arg |-> binary_addr,
                before |-> classifications]
    /\ UNCHANGED <<moveVars, traceVars, outputVars>>

NextClass ==
    \/ \E a \in Addrs, c \in UserClassifications : AddClassification(a, c)
    \/ \E a \in 0 .. MemSize : SplitClassification(a)
    \/ Caught

SpecClass == Init /\ [][NextClass]_vars

\* ------------------------------------------------------- constants actions
ConstantNames == {"page", "oswrch"}
ConstantValues == {25, 238}
ConstantComments == {"", "start of user memory"}
ConstantFormats == {"DEFAULT", "HEX"}

\* add_constant(value, name, comment, format=format)
AddConstant(value, name, comment, format) ==
    /\ ~raising
    /\ raising' = ~add_constant_assert(constants, value, name)
    /\ constants' = add_constant(constants, value, name, comment, format)
    /\ last' = [op |-> "add_constant", value |-> value, name |-> name,
                comment |-> comment, format |-> format, before |-> constants]
    /\ UNCHANGED <<moveVars, classVars, traceVars, labelVars, emitVars, exprVars,
                   config_loop_limit, user_label_maker_hook, state, updates>>

NextConst ==
    \/ \E v \in ConstantValues, n \in ConstantNames,
          c \in ConstantComments, f \in ConstantFormats : AddConstant(v, n, c, f)
    \/ Caught

SpecConst == Init /\ [][NextConst]_vars

\* ------------------------------------------------------ move manager claims
\* The moves added by add_move (BASE is move_definitions[0]).
AddedMoveIds == 1 .. Len(move_definitions) - 1

SourceCovers(id, b) ==
    LET m == move_def(move_definitions, id)
    IN  move_source(m) <= b /\ b < move_source(m) + move_length(m)

DestCovers(id, r) ==
    LET m == move_def(move_definitions, id)
    IN  move_dest(m) <= r /\ r < move_dest(m) + move_length(m)

\* A later add_move has taken binary address b over from move id.
Stolen(id, b) == \E j \in AddedMoveIds : j > id /\ SourceCovers(j, b)

SetMax(S) == CHOOSE x \in S : \A y \in S : y <= x

\* C2 as stated: for every move (d, s, L) added by add_move and every i with
\* 0 <= i < L, b2r(s+i) = d+i.
C2_Original ==
    \A id \in AddedMoveIds :
        LET m == move_def(move_definitions, id)
        IN  \A i \in 0 .. move_length(m) - 1 :
                b2r(move_source(m) + i) = move_dest(m) + i

\* C2 amended: for every move (d, s, L) added by add_move and every i with
\* 0 <= i < L such that no later add_move has a source range containing s+i,
\* b2r(s+i) = d+i (and the assert inside b2r holds).
C2_B2rOfOwnedBytes ==
    \A id \in AddedMoveIds :
        LET m == move_def(move_definitions, id)
        IN  \A i \in 0 .. move_length(m) - 1 :
                ~Stolen(id, move_source(m) + i) =>
                    /\ b2r_assert(move_definitions, move_id_for_binary_addr,
                                  move_source(m) + i)
                    /\ b2r(move_source(m) + i) = move_dest(m) + i

\* A move that has lost one of its source bytes to a later move and kept
\* another, which b2r still maps through it.
C2_Witness ==
    \E id \in AddedMoveIds :
        LET m == move_def(move_definitions, id)
        IN  /\ \E i \in 0 .. move_length(m) - 1 : Stolen(id, move_source(m) + i)
            /\ \E i \in 0 .. move_length(m) - 1 :
                  /\ ~Stolen(id, move_source(m) + i)
                  /\ move_source(m) + i # move_dest(m) + i
                  /\ last = [op |-> "b2r", arg |-> move_source(m) + i,
                             val |-> move_dest(m) + i]

\* C3: every binary address is owned by the most recent add_move whose source
\* range contains it, or by BASE if there is none; the owner's source range
\* contains the address, so the range assertion inside b2r holds for every
\* binary address.
C3_LastMoveOwns ==
    \A b \in Addrs :
        /\ move_id_for_binary_addr[b] =
              SetMax({base_move_id} \cup {id \in AddedMoveIds : SourceCovers(id, b)})
        /\ SourceCovers(move_id_for_binary_addr[b], b)
        /\ b2r_assert(move_definitions, move_id_for_binary_addr, b)

\* A binary address inside the source ranges of two moves, owned by the later,
\* next to an address the earlier move still owns.
C3_Witness ==
    \E b \in Addrs, id1, id2 \in AddedMoveIds :
        /\ id1 < id2
        /\ SourceCovers(id1, b) /\ SourceCovers(id2, b)
        /\ move_id_for_binary_addr[b] = id2
        /\ \E c \in Addrs : move_id_for_binary_addr[c] = id1

\* The first id of S met when scanning the active stack from its top.
TopmostActiveIn(S) ==
    LET hits == {i \in 1 .. Len(active_move_ids) : active_move_ids[i] \in S}
    IN  IF hits = {} THEN <<>> ELSE <<active_move_ids[SetMax(hits)]>>

\* What the claim says r2b returns when S is the set of moves it considers.
R2bByClaim(S, r) ==
    IF S = {} THEN <<r, base_move_id>>
    ELSE LET sel == IF Cardinality(S) = 1 THEN <<CHOOSE id \in S : TRUE>>
                    ELSE TopmostActiveIn(S)
         IN  IF sel = <<>> THEN <<>>
             ELSE LET m == move_def(move_definitions, sel[1])
                  IN  <<move_source(m) + (r - move_dest(m)), sel[1]>>

\* The moves whose destination range covers r.
DestMoves(r) == {id \in AddedMoveIds : DestCovers(id, r)}

\* The moves whose destination range covers r at an offset whose source byte
\* no later add_move has taken over.
LiveDestMoves(r) ==
    {id \in DestMoves(r) :
        LET m == move_def(move_definitions, id)
        IN  ~Stolen(id, move_source(m) + (r - move_dest(m)))}

\* C4 as stated: r2b decides on the set of all move ids whose destination
\* range covers runtime_addr.
C4_Original ==
    last.op = "r2b" => last.val = R2bByClaim(DestMoves(last.arg), last.arg)

\* C4 amended: r2b decides on the set of move ids (BASE excluded) whose
\* destination range covers runtime_addr and whose source byte for that
\* address has not been taken over by a later add_move: empty gives
\* (runtime_addr, BASE); one member gives that move's binary address and id
\* whatever active_move_ids holds; several give the member found first when
\* scanning active_move_ids from the top, or unresolved if none is active.
C4_R2bOnLiveMoves ==
    last.op = "r2b" => last.val = R2bByClaim(LiveDestMoves(last.arg), last.arg)

\* r2b has resolved an address two live moves target, by the active stack
\* that holds both of them.
C4_Witness ==
    /\ last.op = "r2b"
    /\ Cardinality(LiveDestMoves(last.arg)) >= 2
    /\ last.val # <<>>
    /\ \E i, j \in 1 .. Len(active_move_ids) :
          /\ i < j
          /\ active_move_ids[i] # active_move_ids[j]
          /\ {active_move_ids[i], active_move_ids[j]} \subseteq LiveDestMoves(last.arg)

\* C5: active_move_ids holds exactly the ids of the moved() regions entered
\* and not yet left, innermost last: inside a region its top is the region's
\* id, and once every region is left (normally or by an exception) it is
\* what it was before the outermost entry.
C5_ActiveIsRegionStack ==
    /\ active_move_ids = regions
    /\ regions # <<>> => active_move_ids[Len(active_move_ids)] = regions[Len(regions)]
    /\ regions = <<>> => active_move_ids = <<>>

\* An exception has just left the inner of two nested regions with the same
\* id.
C5_Witness ==
    /\ raising
    /\ last.op = "moved_unwind"
    /\ Len(regions) = 1
    /\ regions[1] = last.val

\* ------------------------------------------------------------ 6502 tracer
\* Annotations recorded for one address before the trace is cut off.
MaxAnnotations == 2

\* The byte values an image is made of: BRK, JSR, LDA #, BNE and a value
\* with no row in the opcode table.
ByteSet == {\h00, \h20, \hA9, \hD0, \hFF}

\* The rows of trace6502.opcodes for the values of ByteSet: the class of the
\* opcode ("unknown": the value is not a key of the table).
opcode_class(opcode_value) ==
    CASE opcode_value = \h00 -> "Return"
      [] opcode_value = \h20 -> "Jsr"
      [] opcode_value = \hA9 -> "Immediate"
      [] opcode_value = \hD0 -> "ConditionalBranch"
      [] OTHER -> "unknown"

\* The operand_length each opcode class passes to Opcode.__init__.
operand_length(class) ==
    CASE class = "Return" -> 0
      [] class = "Immediate" -> 1
      [] class = "ConditionalBranch" -> 1
      [] class = "Jsr" -> 2

\* Opcode.length()
opcode_length(class) == 1 + operand_length(class)

signed8(i) == IF i >= \h80 THEN i - 256 ELSE i

\* The assert of get_u8 (an index past the end of the array raises as well).
get_u8_assert(i) == is_valid_addr(i) /\ memory_binary[i] # NoneInt

get_u8(i) == memory_binary[i]

\* utils.get_u16: both bytes are loaded; the little-endian value is an
\* address of the scaled address space.
get_u16_assert(i) == get_u8_assert(i) /\ get_u8_assert(i + 1)

get_u16(i) == (memory_binary[i] + 256 * memory_binary[i + 1]) % MemSize

\* apply_move under a given stack of active moves: [] when r2b is unresolved.
apply_move_in(active, runtime_addr) ==
    LET r == r2b_of(move_definitions, move_id_for_binary_addr, active, runtime_addr)
    IN  IF r = <<>> THEN <<>> ELSE <<r[1]>>

\* r2b asserts (in move_ids_for_runtime_addr) that the runtime address is valid.
apply_move_assert(runtime_addr) == is_valid_addr(runtime_addr)

apply_move(runtime_addr) == apply_move_in(active_move_ids, runtime_addr)

\* apply_move2: apply_move inside moved(owner of context).
apply_move2(target, context) ==
    apply_move_in(moved_enter(active_move_ids, move_id_for_binary_addr[context]),
                  target)

\* OpcodeConditionalBranch._target with the binary address as the base.
branch_target_from_binary(addr) == addr + 2 + signed8(get_u8(addr + 1))

\* OpcodeConditionalBranch._target
branch_target(addr) == b2r(addr) + 2 + signed8(get_u8(addr + 1))

\* abs_operand: the runtime address the instruction refers to.
abs_operand(class, addr) ==
    IF class = "ConditionalBranch" THEN branch_target(addr) ELSE get_u16(addr + 1)

\* The reads of update_references succeed.
update_references_assert(class, addr) ==
    CASE class = "ConditionalBranch" -> get_u8_assert(addr + 1)
      [] class = "Jsr" -> get_u16_assert(addr + 1)
      [] OTHER -> TRUE

\* update_references: labels[abs_operand].add_reference(addr); pass for the
\* classes without an address operand.
update_references(class, addr) ==
    IF class \in {"ConditionalBranch", "Jsr"}
    THEN {<<abs_operand(class, addr), addr>>}
    ELSE {}

\* get_label asserts its runtime address is valid, the end of memory included.
get_label_assert(runtime_addr) == 0 <= runtime_addr /\ runtime_addr <= MemSize

\* The reads and asserts of as_string succeed.
as_string_assert(class, addr) ==
    CASE class = "Immediate" -> is_valid_addr(addr + 1)
      [] class = "ConditionalBranch" ->
            get_u8_assert(addr + 1) /\ get_label_assert(branch_target(addr))
      [] class = "Jsr" -> get_u16_assert(addr + 1)
      [] OTHER -> TRUE

\* The labels get_label creates while as_string formats the operand.
as_string_labels(class, addr) ==
    IF class \in {"ConditionalBranch", "Jsr"}
    THEN {abs_operand(class, addr)}
    ELSE {}

\* jsr_hooks.get(target_runtime_addr, simple_jsr_hook)
jsr_hook(target_runtime_addr) ==
    IF target_runtime_addr \in DOMAIN jsr_hooks
    THEN jsr_hooks[target_runtime_addr]
    ELSE "simple"

\* The assert of simple_jsr_hook, evaluated inside moved(owner of the JSR):
\* r2b_checked resolves the caller's runtime address to the JSR itself.
simple_jsr_hook_assert(binary_addr, caller_runtime_addr) ==
    LET r == r2b_of(move_definitions, move_id_for_binary_addr,
                    moved_enter(active_move_ids, move_id_for_binary_addr[binary_addr]),
                    caller_runtime_addr)
    IN  r # <<>> /\ r[1] = binary_addr

\* What a hook returns: simple_jsr_hook the address after the JSR, a hook of
\* the script None ("stop") or the address after one inline byte ("skip").
hook_return(hook, target_runtime_addr, caller_runtime_addr) ==
    CASE hook = "simple" -> caller_runtime_addr + 3
      [] hook = "stop" -> NoneInt
      [] hook = "skip" -> caller_runtime_addr + 4

\* The runtime address OpcodeJsr.disassemble continues at, or None.
jsr_return_runtime_addr(binary_addr) ==
    LET target_runtime_addr == get_u16(binary_addr + 1)
    IN  hook_return(jsr_hook(target_runtime_addr), target_runtime_addr,
                    b2r(binary_addr))

\* The straight-line part of OpcodeJsr.disassemble: the hook's address
\* translated by apply_move after the moved() block was left; when it does
\* not resolve, binary_addr + 3 if that maps to the returned address.
jsr_continuation_simple(binary_addr) == <<binary_addr + 3>>

jsr_continuation(binary_addr) ==
    LET return_runtime_addr == jsr_return_runtime_addr(binary_addr)
        result == apply_move(return_runtime_addr)
    IN  IF return_runtime_addr = NoneInt THEN <<NoneInt>>
        ELSE IF Len(result) = 0
             THEN IF return_runtime_addr = b2r(binary_addr + 3)
                  THEN <<binary_addr + 3>>
                  ELSE <<NoneInt>>
             ELSE result

\* The asserts met on the way through OpcodeJsr.disassemble hold.
jsr_disassemble_assert(binary_addr) ==
    LET target_runtime_addr == get_u16(binary_addr + 1)
        return_runtime_addr == jsr_return_runtime_addr(binary_addr)
    IN  /\ get_u16_assert(binary_addr + 1)
        /\ jsr_hook(target_runtime_addr) = "simple" =>
              simple_jsr_hook_assert(binary_addr, b2r(binary_addr))
        /\ return_runtime_addr # NoneInt =>
              /\ apply_move_assert(return_runtime_addr)
              /\ Len(apply_move(return_runtime_addr)) = 0 =>
                    is_valid_addr(binary_addr + 3)
        /\ apply_move_assert(target_runtime_addr)

\* The asserts met on the way through opcode.disassemble hold.
disassemble_assert(class, addr) ==
    CASE class = "ConditionalBranch" ->
            get_u8_assert(addr + 1) /\ apply_move_assert(branch_target(addr))
      [] class = "Jsr" -> jsr_disassemble_assert(addr)
      [] OTHER -> TRUE

\* opcode.disassemble(addr): the addresses to trace next, the straight-line
\* one first, None where there is none.
disassemble(class, addr) ==
    CASE class = "Return" -> <<NoneInt>>
      [] class = "Immediate" -> <<addr + 2>>
      [] class = "ConditionalBranch" ->
            <<addr + 2>> \o apply_move2(branch_target(addr), addr)
      [] class = "Jsr" ->
            jsr_continuation(addr) \o apply_move(get_u16(addr + 1))

\* The statement of disassemble_instruction that raises, or "none".
raises_at(class, binary_addr, overlap) ==
    IF overlap
    THEN IF ~as_string_assert(class, binary_addr) THEN "as_string"
         ELSE IF ~disassemble_assert(class, binary_addr) THEN "disassemble"
         ELSE "none"
    ELSE IF add_classification_raises(binary_addr, Instruction(opcode_length(class)))
         THEN "add_classification"
         ELSE IF ~update_references_assert(class, binary_addr) THEN "update_references"
         ELSE IF ~disassemble_assert(class, binary_addr) THEN "disassemble"
         ELSE "none"

\* disassemble_instruction(binary_addr): the classifications, references,
\* labels and annotations it leaves, the list it returns and the statement
\* that raised.
disassemble_instruction(binary_addr) ==
    LET class == opcode_class(memory_binary[binary_addr])
    IN  IF class = "unknown"
        THEN [class |-> class, overlap |-> FALSE, raised |-> "none",
              cls |-> classifications, refs |-> references, labs |-> labels,
              anns |-> annotations, result |-> <<NoneInt>>]
        ELSE
        LET overlap == is_classified(classifications, binary_addr, opcode_length(class))
            raised == raises_at(class, binary_addr, overlap)
            referenced == ~overlap /\ raised \in {"disassemble", "none"}
            annotated == overlap /\ raised # "as_string"
        IN  [class |-> class, overlap |-> overlap, raised |-> raised,
             cls |-> IF overlap THEN classifications
                     ELSE add_classification(classifications, binary_addr,
                                             Instruction(opcode_length(class))),
             refs |-> IF referenced
                      THEN references \cup update_references(class, binary_addr)
                      ELSE references,
             labs |-> IF referenced
                      THEN labels \cup {r[1] : r \in update_references(class, binary_addr)}
                      ELSE IF annotated
                           THEN labels \cup as_string_labels(class, binary_addr)
                           ELSE labels,
             anns |-> IF annotated
                      THEN [annotations EXCEPT ![binary_addr] = @ + 1]
                      ELSE annotations,
             result |-> IF raised = "none" THEN disassemble(class, binary_addr)
                        ELSE <<>>]

\* ---------------------------------------------------------- tracer actions
\* What the control script passes to load, add_move, byte, hook_subroutine
\* and entry.
LoadAddrs == {0, MemSize - 3}
LoadLengths == {2, 3}
TraceMoves == << <<1, 0, 3>>, <<3, 4, 1>>, <<3, 2, 1>>, <<0, 4, 1>> >>
UserData == {<<2, Byte(2)>>}
HookAddrs == {1}
UserHooks == {"stop", "skip"}
EntryAddrs == {0, 2, MemSize - 2}

\* The script makes its add_move calls in the order of TraceMoves, leaving
\* out any of them: move k may follow the moves before it in the list.
may_add(k) ==
    \A j \in 2 .. Len(move_definitions) :
        \E i \in 1 .. k - 1 : TraceMoves[i] = move_definitions[j]

\* md5sum=None: no digest is given.
NoMd5 == <<>>

\* hashlib.md5(data).hexdigest(): distinct images have distinct digests, so
\* the digest stands for the image it was taken of.
hexdigest(data) == data

\* The image of a further load call.
SecondImage == <<\h00>>

\* The md5sum arguments of the script.
Md5Sums == {NoMd5, hexdigest(<<\h00, \h00, \hA9>>), hexdigest(<<\h20, \h00>>)}

\* The statement of load(addr, filename, md5sum) that dies, or "none".
load_dies(addr, data, md5sum) ==
    IF disassembly_range[1] # NoneInt THEN "once"
    ELSE IF addr + Len(data) > MemSize - 1 THEN "overflow"
    ELSE IF md5sum # NoMd5 /\ md5sum # hexdigest(data) THEN "md5sum"
    ELSE "none"

\* load(addr, filename, md5sum): once only, refused when addr + len(data) >
\* 0xffff; the bytes of the file are stored from addr on, the digest is
\* compared and the range of the image is recorded.
Load(addr, data, md5sum) ==
    /\ ~raising
    /\ phase \in {"script", "setup"}
    /\ LET dies == load_dies(addr, data, md5sum)
       IN  /\ raising' = (dies # "none")
           /\ memory_binary' =
                 IF dies \in {"none", "md5sum"}
                 THEN [b \in Addrs |->
                         IF addr <= b /\ b < addr + Len(data)
                         THEN data[b - addr + 1]
                         ELSE memory_binary[b]]
                 ELSE memory_binary
           /\ disassembly_range' =
                 IF dies = "none" THEN <<addr, addr + Len(data)>>
                 ELSE disassembly_range
           /\ phase' = IF dies = "none" THEN "setup" ELSE phase
           /\ last' = [op |-> "load", arg |-> addr, len |-> Len(data),
                       matches |-> (md5sum = NoMd5 \/ md5sum = hexdigest(data)),
                       dies |-> dies, range |-> disassembly_range]
    /\ UNCHANGED outputVars
    /\ UNCHANGED <<moveVars, classVars, entry_points, references, labels,
                   annotations, jsr_hooks, trace_done>>

\* hook_subroutine(addr, name, hook): entry(addr, name), then the hook is
\* stored under addr.
HookSubroutine(addr, hook) ==
    /\ ~raising
    /\ phase = "setup"
    /\ entry_points' = Append(entry_points, addr)
    /\ labels' = labels \cup {addr}
    /\ jsr_hooks' = [r \in DOMAIN jsr_hooks \cup {addr} |->
                        IF r = addr THEN hook ELSE jsr_hooks[r]]
    /\ phase' = "hooked"
    /\ last' = [op |-> "hook_subroutine", arg |-> addr]
    /\ UNCHANGED outputVars
    /\ UNCHANGED <<moveVars, classVars, memory_binary, disassembly_range,
                   references, annotations, raising, trace_done>>

\* entry(addr): the address joins the worklist.
Entry(addr) ==
    /\ ~raising
    /\ phase \in {"setup", "hooked"}
    /\ entry_points' = Append(entry_points, addr)
    /\ phase' = "entered"
    /\ last' = [op |-> "entry", arg |-> addr]
    /\ UNCHANGED outputVars
    /\ UNCHANGED <<moveVars, classVars, memory_binary, disassembly_range,
                   references, labels, annotations, jsr_hooks, raising, trace_done>>

\* go() starts with trace.trace().
Go ==
    /\ ~raising
    /\ phase \in {"setup", "hooked", "entered"}
    /\ phase' = "trace"
    /\ last' = [op |-> "go"]
    /\ UNCHANGED outputVars
    /\ UNCHANGED <<moveVars, classVars, memory_binary, disassembly_range,
                   entry_points, references, labels, annotations, jsr_hooks,
                   raising, trace_done>>

\* The address has a loaded byte.
is_loaded(addr) == is_valid_addr(addr) /\ memory_binary[addr] # NoneInt

\* The worklist drops an address that is outside the loaded range or that
\* already heads the instruction decoded there.
discarded(addr) ==
    \/ ~is_loaded(addr)
    \/ /\ classifications[addr].k = "instruction"
       /\ classifications[addr].len
             = opcode_length(opcode_class(memory_binary[addr]))

\* The successors pushed on the worklist: the elements that are not None.
pushed(result) == SelectSeq(result, LAMBDA a : a # NoneInt)

\* One turn of the worklist loop: pop an address, drop it or hand it to
\* disassemble_instruction and push what that returns. The count of
\* annotations of an address either stops the run at MaxAnnotations or, with
\* saturate, stays at MaxAnnotations from there on.
TraceTurn(saturate) ==
    /\ ~raising
    /\ phase = "trace"
    /\ entry_points # <<>>
    /\ LET addr == Head(entry_points)
       IN  IF discarded(addr)
           THEN /\ entry_points' = Tail(entry_points)
                /\ last' = [op |-> "discard", arg |-> addr]
                /\ UNCHANGED <<classifications, references, labels, annotations,
                               raising>>
           ELSE LET d == disassemble_instruction(addr)
                IN  /\ saturate \/ (d.overlap => annotations[addr] < MaxAnnotations)
                    /\ classifications' = d.cls
                    /\ references' = d.refs
                    /\ labels' = d.labs
                    /\ annotations' =
                          [a \in Addrs |-> IF d.anns[a] > MaxAnnotations
                                           THEN MaxAnnotations ELSE d.anns[a]]
                    /\ raising' = (d.raised # "none")
                    /\ entry_points' = Tail(entry_points) \o pushed(d.result)
                    /\ last' = [op |-> "disassemble_instruction", arg |-> addr,
                                class |-> d.class, overlap |-> d.overlap,
                                raised |-> d.raised, result |-> d.result,
                                cls |-> classifications, refs |-> references,
                                anns |-> annotations]
    /\ UNCHANGED outputVars
    /\ UNCHANGED <<moveVars, memory_binary, disassembly_range, jsr_hooks, phase,
                   trace_done>>

TraceStep == TraceTurn(FALSE)

\* The turn of the loop as the program takes it, whatever the count.
TraceStepUncapped == TraceTurn(TRUE)

\* The inner loop of classify_leftovers: the number of loaded, unclassified
\* bytes from addr on, cut at the end of memory and before a labelled address.
RECURSIVE leftover_run(_, _, _)
leftover_run(cls, addr, i) ==
    IF addr + i < MemSize
       /\ memory_binary[addr + i] # NoneInt
       /\ ~is_classified(cls, addr + i, 1)
    THEN IF addr + i + 1 >= MemSize \/ b2r(addr + i + 1) \in labels
         THEN i + 1
         ELSE leftover_run(cls, addr, i + 1)
    ELSE i

\* classify_leftovers(): the outer loop from addr on.
RECURSIVE classify_leftovers(_, _)
classify_leftovers(cls, addr) ==
    IF addr >= MemSize THEN cls
    ELSE LET i == leftover_run(cls, addr, 0)
         IN  classify_leftovers(
                 IF i > 0 THEN add_classification(cls, addr, Byte(i)) ELSE cls,
                 addr + (IF i > 1 THEN i ELSE 1))

\* The value trace.trace() leaves in trace_done when the worklist is empty.
trace_finished == TRUE

\* go() after the worklist has run empty: trace.trace() returns with
\* trace_done set and the leftovers are classified.
ClassifyLeftovers ==
    /\ ~raising
    /\ phase = "trace"
    /\ entry_points = <<>>
    /\ trace_done' = trace_finished
    /\ classifications' = classify_leftovers(classifications, 0)
    /\ phase' = "done"
    /\ last' = [op |-> "classify_leftovers", cls |-> classifications]
    /\ UNCHANGED outputVars
    /\ UNCHANGED <<moveVars, memory_binary, disassembly_range, entry_points,
                   references, labels, annotations, jsr_hooks, raising>>

NextTrace ==
    \/ \E a \in LoadAddrs, n \in LoadLengths :
          \E data \in [1 .. n -> ByteSet], md5sum \in Md5Sums :
              phase = "script" /\ Load(a, data, md5sum)
    \/ \E a \in LoadAddrs : phase = "setup" /\ Load(a, SecondImage, NoMd5)
    \/ \E k \in 1 .. Len(TraceMoves) :
          /\ phase = "setup"
          /\ may_add(k)
          /\ AddMove(TraceMoves[k][1], TraceMoves[k][2], TraceMoves[k][3])
    \/ \E u \in UserData : phase = "setup" /\ AddClassification(u[1], u[2])
    \/ \E a \in HookAddrs, h \in UserHooks : HookSubroutine(a, h)
    \/ \E a \in EntryAddrs : Entry(a)
    \/ Go
    \/ TraceStep
    \/ ClassifyLeftovers

SpecTrace == Init /\ [][NextTrace]_vars

\* The same script with the loop of trace.trace() running on: go() is one
\* sequential call, so a turn that can be taken is taken.
NextTraceLive ==
    \/ \E n \in LoadLengths :
          \E data \in [1 .. n -> ByteSet] :
              phase = "script" /\ Load(0, data, NoMd5)
    \/ /\ phase = "setup"
       /\ Len(move_definitions) = 1
       /\ AddMove(TraceMoves[1][1], TraceMoves[1][2], TraceMoves[1][3])
    \/ \E u \in UserData : phase = "setup" /\ AddClassification(u[1], u[2])
    \/ \E a \in HookAddrs, h \in UserHooks : HookSubroutine(a, h)
    \/ \E a \in EntryAddrs : Entry(a)
    \/ Go
    \/ TraceStepUncapped
    \/ ClassifyLeftovers

SpecTraceLive ==
    Init /\ [][NextTraceLive]_vars /\ WF_vars(TraceStepUncapped)

\* ------------------------------------------------------------------ labels
\* Names are strings, kept as sequences of characters.
Letters == {"a", "b", "c", "d", "e", "f", "g", "h", "i", "j", "k", "l", "m",
            "n", "o", "p", "q", "r", "s", "t", "u", "v", "w", "x", "y", "z"}
Digits == {"0", "1", "2", "3", "4", "5", "6", "7", "8", "9"}
HexDigits == <<"0", "1", "2", "3", "4", "5", "6", "7", "8", "9",
               "a", "b", "c", "d", "e", "f">>

\* "%04x" % n
hex4(n) ==
    <<HexDigits[((n \div 4096) % 16) + 1], HexDigits[((n \div 256) % 16) + 1],
      HexDigits[((n \div 16) % 16) + 1], HexDigits[(n % 16) + 1]>>

\* is_simple_name's asserts: a string that is not empty.
is_simple_name_assert(s) == Len(s) > 0

\* is_simple_name: a letter or underscore, then letters, digits, underscores.
is_simple_name(s) ==
    /\ s[1] \in Letters \cup {"_"}
    /\ \A i \in 1 .. Len(s) : s[i] \in Letters \cup Digits \cup {"_"}

\* Label.Name.__init__
Name(text) == [text |-> text, emitted |-> FALSE]

\* The value of an expression: Python evaluates the argument of a call
\* once, before the call.
value_of(S) == CHOOSE r \in S : TRUE

\* The elements of a sequence.
Range(s) == {s[i] : i \in 1 .. Len(s)}

\* Label.all_names: the explicit names and the expressions (of a local label
\* it adds the tuple, which equals no name).
all_names(label) ==
    UNION {{n.text : n \in Range(label.explicit_names[m])} : m \in MoveIds}
    \cup UNION {Range(label.expressions[m]) : m \in MoveIds}

\* move_id None stands for BASE.
or_base(move_id) == IF move_id = NoneInt THEN base_move_id ELSE move_id

\* The asserts of Label.add_explicit_name.
add_explicit_name_assert(name, move_id) ==
    /\ is_simple_name_assert(name)
    /\ is_simple_name(name)
    /\ is_valid_move_id(move_definitions, or_base(move_id))

\* Label.add_explicit_name with no check against the names the label has.
add_explicit_name_again(label, name, move_id) ==
    [label EXCEPT !.explicit_names[or_base(move_id)] = Append(@, Name(name))]

\* Label.add_explicit_name
add_explicit_name(label, name, move_id) ==
    IF name \in all_names(label) THEN label
    ELSE [label EXCEPT !.explicit_names[or_base(move_id)] = Append(@, Name(name))]

\* The asserts of Label.add_expression (move_id None is not replaced here).
add_expression_assert(s, move_id) ==
    /\ is_simple_name_assert(s)
    /\ ~is_simple_name(s)
    /\ is_valid_move_id(move_definitions, move_id)

\* Label.add_expression
add_expression(label, s, move_id) ==
    IF s \in all_names(label) THEN label
    ELSE [label EXCEPT !.expressions[move_id] = Append(@, s)]

\* The asserts of Label.add_local_label.
add_local_label_assert(name, move_id) ==
    /\ is_simple_name_assert(name)
    /\ is_simple_name(name)
    /\ is_valid_move_id(move_definitions, or_base(move_id))

\* Label.add_local_label
add_local_label(label, name, start_addr, end_addr, move_id) ==
    [label EXCEPT !.local_labels[or_base(move_id)] =
                      Append(@, <<name, start_addr, end_addr>>)]

\* labelmanager.labels[runtime_addr]: the Label there, a new one if none.
label_at(objs, labs, runtime_addr) == objs[runtime_addr]

\* s=None: add_label is given no name.
NoName == <<>>

\* The asserts add_label meets in add_explicit_name or add_expression.
add_label_assert(s, move_id) ==
    s # NoName =>
        IF is_simple_name(s)
        THEN add_explicit_name_assert(s, move_id)
        ELSE add_expression_assert(s, move_id)

\* add_label(runtime_addr, s, move_id, definable_inline=...): the Label
\* objects it leaves; the label exists and its definable_inline is updated
\* before the name is looked at.
add_label(objs, labs, runtime_addr, s, move_id, definable_inline) ==
    LET label == label_at(objs, labs, runtime_addr)
        flagged == [label EXCEPT !.definable_inline = @ /\ definable_inline]
    IN  [objs EXCEPT ![runtime_addr] =
            IF s = NoName \/ ~add_label_assert(s, move_id) THEN flagged
            ELSE IF is_simple_name(s) THEN add_explicit_name(flagged, s, move_id)
            ELSE add_expression(flagged, s, move_id)]

\* The tuple add_optional_label stores.
OptionalLabel(s, base_addr, definable_inline) ==
    [name |-> s, base_addr |-> base_addr, definable_inline |-> definable_inline]

\* The asserts of add_optional_label.
add_optional_label_assert(opt, runtime_addr, s, base_addr, definable_inline) ==
    /\ 0 <= runtime_addr /\ runtime_addr <= MemSize - 1
    /\ IF runtime_addr \in DOMAIN opt
       THEN opt[runtime_addr] = OptionalLabel(s, base_addr, definable_inline)
       ELSE IF base_addr # NoneInt
            THEN /\ runtime_addr # base_addr
                 /\ 0 <= base_addr /\ base_addr <= MemSize - 1
                 /\ base_addr \in DOMAIN opt
                 /\ opt[base_addr].base_addr = NoneInt
            ELSE is_simple_name_assert(s) /\ is_simple_name(s)

\* add_optional_label(runtime_addr, s, base_addr=..., definable_inline=...)
add_optional_label(opt, runtime_addr, s, base_addr, definable_inline) ==
    IF runtime_addr \in DOMAIN opt THEN opt
    ELSE [r \in DOMAIN opt \cup {runtime_addr} |->
             IF r = runtime_addr
             THEN OptionalLabel(s, base_addr, definable_inline)
             ELSE opt[r]]

\* Faulty variant of first_name_in: a local label is used whatever the
\* binary address is.
first_name_in_any_local(label, move_id, binary_addr) ==
    IF label.local_labels[move_id] # <<>>
    THEN [kind |-> "local", name |-> label.local_labels[move_id][1][1],
          move_id |-> move_id]
    ELSE IF label.explicit_names[move_id] # <<>>
    THEN [kind |-> "explicit", name |-> label.explicit_names[move_id][1].text,
          move_id |-> move_id]
    ELSE IF label.expressions[move_id] # <<>>
    THEN [kind |-> "expression", name |-> label.expressions[move_id][1],
          move_id |-> move_id]
    ELSE [kind |-> "none", name |-> <<>>, move_id |-> move_id]

\* The first name a label has for binary_addr under one move id: a local
\* label whose range holds binary_addr, else the first explicit name, else
\* the first expression.
first_name_in(label, move_id, binary_addr) ==
    LET locals == SelectSeq(label.local_labels[move_id],
                            LAMBDA t : t[2] <= binary_addr /\ binary_addr < t[3])
    IN  IF locals # <<>>
        THEN [kind |-> "local", name |-> locals[1][1], move_id |-> move_id]
        ELSE IF label.explicit_names[move_id] # <<>>
        THEN [kind |-> "explicit", name |-> label.explicit_names[move_id][1].text,
              move_id |-> move_id]
        ELSE IF label.expressions[move_id] # <<>>
        THEN [kind |-> "expression", name |-> label.expressions[move_id][1],
              move_id |-> move_id]
        ELSE [kind |-> "none", name |-> <<>>, move_id |-> move_id]

\* Rule 3 of suggest_label_name: the first candidate move id with a name.
RECURSIVE candidate_name(_, _, _, _)
candidate_name(label, candidate_move_ids, binary_addr, i) ==
    IF i > Len(candidate_move_ids)
    THEN [kind |-> "none", name |-> <<>>, move_id |-> NoneInt]
    ELSE LET hit == first_name_in(label, candidate_move_ids[i], binary_addr)
         IN  IF hit.kind # "none" THEN hit
             ELSE candidate_name(label, candidate_move_ids, binary_addr, i + 1)

\* is_code: the address heads an instruction.
is_code(binary_addr) == classifications[binary_addr].k = "instruction"

\* The binary addresses that reference the runtime address.
references_to(runtime_addr) == {x[2] : x \in {y \in references : y[1] = runtime_addr}}

\* trace6502.is_subroutine_call
is_subroutine_call(addr) == is_code(addr) /\ memory_binary[addr] = \h20

\* trace6502.is_branch_to (of the rows of opcode_class only the conditional
\* branch is one of the classes it accepts).
is_branch_to(addr, target) ==
    /\ is_code(addr)
    /\ opcode_class(memory_binary[addr]) = "ConditionalBranch"
    /\ branch_target(addr) = target


\* Faulty variant of autogenerated_name: a branch to its own address is not
\* a loop.
autogenerated_name_strict_loop(runtime_addr) ==
    LET rb == r2b(runtime_addr)
        refs == references_to(runtime_addr)
        only == CHOOSE a \in refs : TRUE
    IN  IF rb = <<>> \/ ~is_code(rb[1])
        THEN <<"l">> \o hex4(runtime_addr)
        ELSE IF \A a \in refs : is_subroutine_call(a)
        THEN <<"s", "u", "b", "_", "c">> \o hex4(runtime_addr)
        ELSE IF /\ Cardinality(refs) = 1
                /\ is_branch_to(only, runtime_addr)
                /\ 0 < b2r(only) - runtime_addr
                /\ b2r(only) - runtime_addr < config_loop_limit
        THEN <<"l", "o", "o", "p", "_", "c">> \o hex4(runtime_addr)
        ELSE <<"c">> \o hex4(runtime_addr)

\* The name suggest_label_name makes up: lXXXX for data, cXXXX for code,
\* with sub_ when every reference is a JSR and loop_ when the one reference
\* is a branch back from at most loop_limit bytes on.
autogenerated_name(runtime_addr) ==
    LET rb == r2b(runtime_addr)
        refs == references_to(runtime_addr)
        only == CHOOSE a \in refs : TRUE
    IN  IF rb = <<>> \/ ~is_code(rb[1])
        THEN <<"l">> \o hex4(runtime_addr)
        ELSE IF \A a \in refs : is_subroutine_call(a)
        THEN <<"s", "u", "b", "_", "c">> \o hex4(runtime_addr)
        ELSE IF /\ Cardinality(refs) = 1
                /\ is_branch_to(only, runtime_addr)
                /\ 0 <= b2r(only) - runtime_addr
                /\ b2r(only) - runtime_addr < config_loop_limit
        THEN <<"l", "o", "o", "p", "_", "c">> \o hex4(runtime_addr)
        ELSE <<"c">> \o hex4(runtime_addr)

\* suggest_label_name(runtime_addr, binary_addr, move_id): the (name,
\* move_id) it returns, whether the name is made up, and the Label objects
\* and keys it leaves (an optional label with a base adds its base label).
suggest_label_name(objs, labs, runtime_addr, binary_addr, move_id) ==
    LET given == IF move_id = NoneInt
                 THEN move_id_for_binary_addr[binary_addr]
                 ELSE move_id
        move_ids2 == move_ids_for_runtime_addr(move_definitions,
                                               move_id_for_binary_addr, runtime_addr)
        label == label_at(objs, labs, runtime_addr)
        rule3 == IF InSeq(given, move_ids2)
                 THEN [kind |-> "none", name |-> <<>>, move_id |-> NoneInt]
                 ELSE candidate_name(label, <<given>> \o move_ids2, binary_addr, 1)
        chosen == IF InSeq(given, move_ids2) THEN given
                  ELSE IF Len(move_ids2) = 1 THEN move_ids2[1]
                  ELSE base_move_id
        own == first_name_in(label, chosen, binary_addr)
        base == first_name_in(label, base_move_id, binary_addr)
        found(name, id) == [name |-> name, move_id |-> id, auto |-> FALSE,
                            objs |-> objs, labs |-> labs]
    IN  IF rule3.kind # "none" THEN found(rule3.name, rule3.move_id)
        ELSE IF own.kind # "none" THEN found(own.name, chosen)
        ELSE IF base.kind # "none"
        THEN found(base.name, IF base.kind = "explicit" THEN NoneInt ELSE chosen)
        ELSE IF runtime_addr \in DOMAIN optional_labels
        THEN LET o == optional_labels[runtime_addr]
                 flagged == [objs EXCEPT ![runtime_addr].definable_inline =
                                             @ /\ o.definable_inline]
             IN  [name |-> o.name, move_id |-> NoneInt, auto |-> FALSE,
                  objs |-> IF o.base_addr # NoneInt
                           THEN add_label(flagged, labs, o.base_addr,
                                          optional_labels[o.base_addr].name,
                                          NoneInt, o.definable_inline)
                           ELSE flagged,
                  labs |-> IF o.base_addr # NoneInt
                           THEN labs \cup {o.base_addr}
                           ELSE labs]
        ELSE [name |-> autogenerated_name(runtime_addr), move_id |-> chosen,
              auto |-> TRUE, objs |-> objs, labs |-> labs]

\* get_final_label's asserts without the one on trace_done.
get_final_label_assert_untraced(runtime_addr, binary_addr, move_id) ==
    /\ is_valid_addr(runtime_addr)
    /\ is_valid_addr(binary_addr)
    /\ move_id = NoneInt \/ is_valid_move_id(move_definitions, move_id)

\* The asserts at the head of get_final_label (label_maker asserts
\* trace_done again).
get_final_label_assert(runtime_addr, binary_addr, move_id) ==
    /\ trace_done
    /\ is_valid_addr(runtime_addr)
    /\ is_valid_addr(binary_addr)
    /\ move_id = NoneInt \/ is_valid_move_id(move_definitions, move_id)

\* A user label maker: a function of the runtime address, the binary
\* address and the suggestion; None, or the name it returns (a string, which
\* label_maker pairs with None). "prefix" puts m_ before every suggested
\* name, "rename" names the address 3 hook3 and leaves the others alone,
\* "same" hands the suggestion back.
user_label_maker(hook, runtime_addr, binary_addr, suggestion) ==
    CASE hook = "prefix" -> [name |-> <<"m", "_">> \o suggestion.name, move_id |-> NoneInt]
      [] hook = "rename" /\ runtime_addr = 3 ->
            [name |-> <<"h", "o", "o", "k", "3">>, move_id |-> NoneInt]
      [] hook = "same" -> [name |-> suggestion.name, move_id |-> suggestion.move_id]
      [] OTHER -> None

\* label_maker(runtime_addr, binary_addr, move_id): the suggestion, or what
\* the user hook returns when that is not None and differs from it.
label_maker(objs, labs, runtime_addr, binary_addr, move_id) ==
    LET choose(s, u) ==
            IF u # None /\ (u.name # s.name \/ u.move_id # s.move_id)
            THEN [s EXCEPT !.name = u.name, !.move_id = u.move_id, !.auto = FALSE]
            ELSE s
        hooked(s) ==
            IF user_label_maker_hook = NoHook THEN s
            ELSE value_of({choose(s, u) :
                           u \in {user_label_maker(user_label_maker_hook, runtime_addr,
                                                   binary_addr, s)}})
    IN  value_of({hooked(s) : s \in {suggest_label_name(objs, labs, runtime_addr,
                                                        binary_addr, move_id)}})

\* get_final_label where the name is not added to the label.
get_final_label_name_only(objs, labs, runtime_addr, binary_addr, move_id) ==
    label_maker(objs, labs, runtime_addr, binary_addr, move_id)

\* get_final_label(runtime_addr, binary_addr, move_id): label_maker's
\* (name, move_id) with no user hook installed; a simple name is added to
\* the explicit names of the label.
get_final_label(objs, labs, runtime_addr, binary_addr, move_id) ==
    LET add(s) ==
            IF is_simple_name(s.name)
            THEN [s EXCEPT
                     !.objs[runtime_addr] = add_explicit_name(@, s.name, s.move_id),
                     !.labs = @ \cup {runtime_addr}]
            ELSE s
    IN  value_of({add(s) : s \in {label_maker(objs, labs, runtime_addr,
                                              binary_addr, move_id)}})

\* ----------------------------------------------------------- label actions
\* The image and the calls of the control script: a branch at 0 to the code
\* at 3, optional labels for 3, 4 and 5 (the one at 5 based on the one at
\* 4), and names for 3 that come before an optional label.
LabelImage == <<\hD0, \h01, \h00, \h00>>
NameT == <<"t">>
NameV == <<"v">>
NameV1 == <<"v", "+", "1">>
NameS == <<"s">>
NameK == <<"k">>
NameS0 == <<"s", "+", "0">>
NameU == <<"u">>
NameW == <<"w">>
LabelMove == <<3, 4, 1>>

\* The label calls of the script, made in this order, any of them left out.
LabelScript ==
    <<[call |-> "add_optional_label", args |-> <<3, NameT, NoneInt, TRUE>>],
      [call |-> "add_optional_label", args |-> <<4, NameV, NoneInt, FALSE>>],
      [call |-> "add_optional_label", args |-> <<5, NameV1, 4, TRUE>>],
      [call |-> "add_optional_label", args |-> <<2, NameW, 4, TRUE>>],
      [call |-> "add_label", args |-> <<3, NameS, NoneInt>>],
      [call |-> "add_label", args |-> <<3, NameS0, 0>>],
      [call |-> "add_label", args |-> <<3, NameU, 1>>],
      [call |-> "add_local_label", args |-> <<3, NameK, 0, 2, NoneInt>>],
      [call |-> "get_label", args |-> <<3, 0, NoneInt>>],
      [call |-> "get_label", args |-> <<5, 0, NoneInt>>],
      [call |-> "get_label", args |-> <<2, 0, NoneInt>>]>>

\* add_label(runtime_addr, s, move_id)
AddLabel(runtime_addr, s, move_id) ==
    /\ ~raising
    /\ phase = "setup"
    /\ raising' = ~add_label_assert(s, move_id)
    /\ label_objects' = add_label(label_objects, labels, runtime_addr, s, move_id, TRUE)
    /\ labels' = labels \cup {runtime_addr}
    /\ last' = [op |-> "add_label", arg |-> runtime_addr]
    /\ UNCHANGED <<moveVars, classVars, constVars, emitVars, exprVars, optional_labels, lazy_names,
                   resolved>>
    /\ UNCHANGED <<memory_binary, disassembly_range, entry_points, references,
                   annotations, jsr_hooks, phase, trace_done>>

\* add_optional_label(runtime_addr, s, base_addr=..., definable_inline=...)
AddOptionalLabel(runtime_addr, s, base_addr, definable_inline) ==
    /\ ~raising
    /\ phase = "setup"
    /\ LET ok == add_optional_label_assert(optional_labels, runtime_addr, s,
                                           base_addr, definable_inline)
       IN  /\ raising' = ~ok
           /\ optional_labels' =
                 IF ok THEN add_optional_label(optional_labels, runtime_addr, s,
                                               base_addr, definable_inline)
                 ELSE optional_labels
    /\ last' = [op |-> "add_optional_label", arg |-> runtime_addr]
    /\ UNCHANGED <<moveVars, classVars, traceVars, constVars, emitVars, exprVars, label_objects,
                   lazy_names, resolved>>

\* add_local_label(runtime_addr, name, start_addr, end_addr, move_id)
AddLocalLabel(runtime_addr, name, start_addr, end_addr, move_id) ==
    /\ ~raising
    /\ phase = "setup"
    /\ raising' = ~add_local_label_assert(name, move_id)
    /\ label_objects' =
          IF add_local_label_assert(name, move_id)
          THEN [label_objects EXCEPT ![runtime_addr] =
                   add_local_label(@, name, start_addr, end_addr, move_id)]
          ELSE label_objects
    /\ labels' = labels \cup {runtime_addr}
    /\ last' = [op |-> "add_local_label", arg |-> runtime_addr]
    /\ UNCHANGED <<moveVars, classVars, constVars, emitVars, exprVars, optional_labels, lazy_names,
                   resolved>>
    /\ UNCHANGED <<memory_binary, disassembly_range, entry_points, references,
                   annotations, jsr_hooks, phase, trace_done>>

\* get_label(runtime_addr, binary_addr, move_id): the Label exists from now
\* on and a LazyString is returned.
GetLabel(runtime_addr, binary_addr, move_id) ==
    /\ ~raising
    /\ phase \in {"setup", "done"}
    /\ LET ok == /\ get_label_assert(runtime_addr)
                 /\ is_valid_addr(binary_addr)
                 /\ move_id = NoneInt \/ is_valid_move_id(move_definitions, move_id)
       IN  /\ raising' = ~ok
           /\ labels' = IF ok THEN labels \cup {runtime_addr} ELSE labels
           /\ lazy_names' = IF ok
                            THEN lazy_names \cup {<<runtime_addr, binary_addr, move_id>>}
                            ELSE lazy_names
    /\ last' = [op |-> "get_label", arg |-> <<runtime_addr, binary_addr, move_id>>,
                objs |-> label_objects, labs |-> labels]
    /\ UNCHANGED <<moveVars, classVars, constVars, emitVars, exprVars, optional_labels, label_objects,
                   resolved>>
    /\ UNCHANGED <<memory_binary, disassembly_range, entry_points, references,
                   annotations, jsr_hooks, phase, trace_done>>

\* str() of a LazyString that get_label returned: get_final_label runs.
Stringify(lazy) ==
    /\ ~raising
    /\ phase \in {"setup", "done"}
    /\ LET ok == get_final_label_assert(lazy[1], lazy[2], lazy[3])
           g == get_final_label(label_objects, labels, lazy[1], lazy[2], lazy[3])
       IN  /\ raising' = ~ok
           /\ label_objects' = IF ok THEN g.objs ELSE label_objects
           /\ labels' = IF ok THEN g.labs ELSE labels
           /\ last' = [op |-> "str", arg |-> lazy,
                       name |-> IF ok THEN g.name ELSE <<>>,
                       objs |-> label_objects, labs |-> labels]
           /\ resolved' = IF ok THEN resolved \cup {<<lazy, g.name>>} ELSE resolved
    /\ UNCHANGED <<moveVars, classVars, constVars, emitVars, exprVars, optional_labels, lazy_names,
                   script_pos>>
    /\ UNCHANGED <<memory_binary, disassembly_range, entry_points, references,
                   annotations, jsr_hooks, phase, trace_done>>

\* Call k of LabelScript.
LabelCall(k) ==
    LET c == LabelScript[k].call
        a == LabelScript[k].args
    IN  /\ script_pos < k
        /\ script_pos' = k
        /\ CASE c = "add_optional_label" -> AddOptionalLabel(a[1], a[2], a[3], a[4])
             [] c = "add_label" -> AddLabel(a[1], a[2], a[3])
             [] c = "add_local_label" -> AddLocalLabel(a[1], a[2], a[3], a[4], a[5])
             [] c = "get_label" -> GetLabel(a[1], a[2], a[3])

NextLabel ==
    \/ phase = "script" /\ Load(0, LabelImage, NoMd5)
    \/ /\ phase = "setup"
       /\ script_pos = 0
       /\ Len(move_definitions) = 1
       /\ AddMove(LabelMove[1], LabelMove[2], LabelMove[3])
    \/ \E k \in 1 .. Len(LabelScript) : LabelCall(k)
    \/ \E lazy \in lazy_names : Stringify(lazy)
    \/ phase = "setup" /\ Entry(0)
    \/ Go
    \/ TraceStep
    \/ ClassifyLeftovers

SpecLabel == Init /\ [][NextLabel]_vars

\* ---------------------------------------------------------- name resolution
\* A second control script over the same image: the names of runtime
\* address 3 under the move that lands there and under BASE, registered in
\* this order with any of them left out, and three references to it from
\* different binary contexts.
NameJ == <<"j">>
NameX == <<"x">>

ResolveScript ==
    <<[call |-> "add_local_label", args |-> <<3, NameK, 0, 2, 1>>],
      [call |-> "add_local_label", args |-> <<3, NameJ, 0, 5, NoneInt>>],
      [call |-> "add_label", args |-> <<3, NameS, 1>>],
      [call |-> "add_label", args |-> <<3, NameU, 1>>],
      [call |-> "add_label", args |-> <<3, NameS, 1>>],
      [call |-> "add_label", args |-> <<3, NameS0, 1>>],
      [call |-> "add_label", args |-> <<3, NameX, NoneInt>>],
      [call |-> "add_optional_label", args |-> <<3, NameT, NoneInt, TRUE>>],
      [call |-> "get_label", args |-> <<3, 0, 1>>],
      [call |-> "get_label", args |-> <<3, 4, NoneInt>>],
      [call |-> "get_label", args |-> <<3, 5, NoneInt>>]>>

\* Call k of ResolveScript.
ResolveCall(k) ==
    LET c == ResolveScript[k].call
        a == ResolveScript[k].args
    IN  /\ script_pos < k
        /\ script_pos' = k
        /\ CASE c = "add_optional_label" -> AddOptionalLabel(a[1], a[2], a[3], a[4])
             [] c = "add_label" -> AddLabel(a[1], a[2], a[3])
             [] c = "add_local_label" -> AddLocalLabel(a[1], a[2], a[3], a[4], a[5])
             [] c = "get_label" -> GetLabel(a[1], a[2], a[3])

NextResolve ==
    \/ phase = "script" /\ Load(0, LabelImage, NoMd5)
    \/ /\ phase = "setup"
       /\ script_pos = 0
       /\ Len(move_definitions) = 1
       /\ AddMove(LabelMove[1], LabelMove[2], LabelMove[3])
    \/ \E k \in 1 .. Len(ResolveScript) : ResolveCall(k)
    \/ \E lazy \in lazy_names : Stringify(lazy)
    \/ phase = "setup" /\ Entry(0)
    \/ Go
    \/ TraceStep
    \/ ClassifyLeftovers

SpecResolve == Init /\ [][NextResolve]_vars

\* ---------------------------------------------------------- made-up names
\* config.set_loop_limit(i), called once by the script.
SetLoopLimit(i) ==
    /\ ~raising
    /\ phase = "setup"
    /\ config_loop_limit = loop_limit
    /\ config_loop_limit' = i
    /\ last' = [op |-> "set_loop_limit", arg |-> i]
    /\ UNCHANGED <<moveVars, classVars, traceVars, constants, labelVars, emitVars,
                   exprVars, raising, user_label_maker_hook, state, updates>>

\* Images whose code is referenced in different ways: a JSR to a branch to
\* itself, a JSR to a return, a branch to itself, a branch back over an
\* instruction, a branch forward.
SynthImages ==
    {<<\h20, \h03, \h00, \hD0, \hFE>>,
     <<\h20, \h03, \h00, \h00>>,
     <<\hD0, \hFE, \h00>>,
     <<\hA9, \h00, \hD0, \hFC, \h00>>,
     <<\hD0, \h01, \h00, \h00>>}
LoopLimits == {1, 3}
SynthData == {<<3, Byte(1)>>}
SynthMoves == << <<3, 4, 1>>, <<3, 2, 1>> >>
SynthAddrs == {0, 2, 3}

NextSynth ==
    \/ \E image \in SynthImages : phase = "script" /\ Load(0, image, NoMd5)
    \/ \E k \in 1 .. Len(SynthMoves) :
          /\ phase = "setup"
          /\ Len(move_definitions) = k
          /\ AddMove(SynthMoves[k][1], SynthMoves[k][2], SynthMoves[k][3])
    \/ \E i \in LoopLimits : SetLoopLimit(i)
    \/ \E u \in SynthData : phase = "setup" /\ AddClassification(u[1], u[2])
    \/ phase = "setup" /\ Entry(0)
    \/ Go
    \/ TraceStep
    \/ ClassifyLeftovers
    \/ \E r \in SynthAddrs :
          phase = "done" /\ GetLabel(r, 0, NoneInt) /\ UNCHANGED script_pos
    \/ \E lazy \in lazy_names : Stringify(lazy)

SpecSynth == Init /\ [][NextSynth]_vars

\* ------------------------------------------------------------- label maker
\* set_user_label_maker_hook(hook): asserts that none is set.
SetUserLabelMakerHook(hook) ==
    /\ ~raising
    /\ phase = "setup"
    /\ raising' = (user_label_maker_hook # NoHook)
    /\ user_label_maker_hook' =
          IF user_label_maker_hook = NoHook THEN hook ELSE user_label_maker_hook
    /\ last' = [op |-> "set_user_label_maker_hook", arg |-> hook]
    /\ UNCHANGED <<moveVars, classVars, traceVars, constants, config_loop_limit,
                   labelVars, emitVars, exprVars, state, updates>>

LabelMakers == {"prefix", "rename", "same"}

\* The calls of the script, any of them left out: a local label of move 1
\* and a name under BASE for the address 3, and references to 3 and to 0
\* from inside and from outside the range of the local label.
HookScript ==
    <<[call |-> "add_local_label", args |-> <<3, NameK, 0, 2, 1>>],
      [call |-> "add_label", args |-> <<3, NameX, NoneInt>>],
      [call |-> "get_label", args |-> <<3, 0, 1>>],
      [call |-> "get_label", args |-> <<3, 4, NoneInt>>],
      [call |-> "get_label", args |-> <<0, 0, NoneInt>>]>>

\* Call k of HookScript.
HookCall(k) ==
    LET c == HookScript[k].call
        a == HookScript[k].args
    IN  /\ script_pos < k
        /\ script_pos' = k
        /\ CASE c = "add_label" -> AddLabel(a[1], a[2], a[3])
             [] c = "add_local_label" -> AddLocalLabel(a[1], a[2], a[3], a[4], a[5])
             [] c = "get_label" -> GetLabel(a[1], a[2], a[3])

NextHooked ==
    \/ phase = "script" /\ Load(0, LabelImage, NoMd5)
    \/ /\ phase = "setup"
       /\ script_pos = 0
       /\ Len(move_definitions) = 1
       /\ AddMove(LabelMove[1], LabelMove[2], LabelMove[3])
    \/ \E h \in LabelMakers : script_pos = 0 /\ SetUserLabelMakerHook(h)
    \/ \E k \in 1 .. Len(HookScript) : HookCall(k)
    \/ \E lazy \in lazy_names : Stringify(lazy)
    \/ phase = "setup" /\ Entry(0)
    \/ Go
    \/ TraceStep
    \/ ClassifyLeftovers

SpecHooked == Init /\ [][NextHooked]_vars

\* ----------------------------------------------------------------- emitter
\* MoveDefinition.convert_binary_to_runtime_addr: dest + (binary - source)
\* of the move with the id, for addresses outside the move as well.
convert_binary_to_runtime_addr(move_id, binary_addr) ==
    LET m == move_def(move_definitions, move_id)
    IN  move_dest(m) + (binary_addr - move_source(m))

\* sorted() of a set of addresses.
RECURSIVE sorted(_)
sorted(S) ==
    IF S = {} THEN <<>>
    ELSE LET least == CHOOSE x \in S : \A y \in S : x <= y
         IN  <<least>> \o sorted(S \ {least})

\* The end of the move range that starts at the address: the first address
\* that is not loaded or belongs to another move id.
move_range_end(start_addr) ==
    CHOOSE e \in start_addr + 1 .. MemSize :
        /\ \A b \in start_addr .. e - 1 :
               /\ is_loaded(b)
               /\ move_id_for_binary_addr[b] = move_id_for_binary_addr[start_addr]
        /\ \/ ~is_loaded(e)
           \/ move_id_for_binary_addr[e] # move_id_for_binary_addr[start_addr]

\* calculate_move_ranges: the runs of loaded addresses that share a move id,
\* in ascending order.
calculate_move_ranges ==
    LET starts == {b \in Addrs :
                      /\ is_loaded(b)
                      /\ \/ ~is_loaded(b - 1)
                         \/ move_id_for_binary_addr[b - 1] # move_id_for_binary_addr[b]}
        ranges(s) == [i \in 1 .. Len(s) |-> <<s[i], move_range_end(s[i])>>]
    IN  value_of({ranges(s) : s \in {sorted(starts)}})

\* isolate_range for every move range: split_classification at its start and
\* at its end. ok is false when an assert of a split fails.
RECURSIVE isolate_ranges(_, _, _)
isolate_ranges(st0, move_ranges, i) ==
    LET addr == move_ranges[(i + 1) \div 2][IF i % 2 = 1 THEN 1 ELSE 2]
        f(st) ==
            IF i > 2 * Len(move_ranges) \/ ~st.ok THEN st
            ELSE IF split_returns_early(st.cls, addr)
            THEN isolate_ranges(st, move_ranges, i + 1)
            ELSE IF ~split_asserts(st.cls, addr)
            THEN [st EXCEPT !.ok = FALSE]
            ELSE isolate_ranges([st EXCEPT !.cls = split_classification(@, addr)],
                                move_ranges, i + 1)
    IN  value_of({f(s) : s \in {st0}})

\* str() of the LazyString of a get_label call made while emitting:
\* get_label's asserts, then get_final_label.
resolve(st0, lazy) ==
    LET f(st, g) == [st EXCEPT !.objs = g.objs, !.labs = g.labs,
                               !.res = @ \cup {<<lazy, g.name>>}]
        h(st) ==
            IF ~st.ok THEN st
            ELSE IF ~(/\ get_label_assert(lazy[1])
                      /\ get_final_label_assert(lazy[1], lazy[2], lazy[3]))
            THEN [st EXCEPT !.ok = FALSE]
            ELSE value_of({f(st, g) : g \in {get_final_label(st.objs, st.labs, lazy[1],
                                                            lazy[2], lazy[3])}})
    IN  value_of({h(s) : s \in {st0}})

RECURSIVE resolve_all(_, _, _)
resolve_all(st, lazies, i) ==
    IF i > Len(lazies) THEN st
    ELSE resolve_all(resolve(st, lazies[i]), lazies, i + 1)

\* The get_label calls as_string_list makes for the classification at the
\* address: the operand of a branch or a JSR.
operand_lazies(cls, addr) ==
    LET class == opcode_class(memory_binary[addr])
    IN  IF cls[addr].k = "instruction" /\ class \in {"ConditionalBranch", "Jsr"}
        THEN <<<<abs_operand(class, addr), addr, NoneInt>>>>
        ELSE <<>>

\* as_string_list of the classification at the address succeeds.
as_string_list_assert(cls, addr) ==
    cls[addr].k = "instruction" =>
        as_string_assert(opcode_class(memory_binary[addr]), addr)

\* fix_label_names: str() of every line of every classification, in
\* ascending order of address (the walk steps over the sentinels by the
\* length of the head).
RECURSIVE fix_label_names_from(_, _)
fix_label_names_from(st0, binary_addr) ==
    LET f(st) ==
            IF binary_addr >= MemSize \/ ~st.ok THEN st
            ELSE IF st.cls[binary_addr].len = 0
            THEN fix_label_names_from(st, binary_addr + 1)
            ELSE IF ~as_string_list_assert(st.cls, binary_addr)
            THEN [st EXCEPT !.ok = FALSE]
            ELSE fix_label_names_from(
                     resolve_all(st, operand_lazies(st.cls, binary_addr), 1),
                     binary_addr + st.cls[binary_addr].len)
    IN  value_of({f(s) : s \in {st0}})

fix_label_names(st) ==
    IF trace_done THEN fix_label_names_from(st, 0) ELSE [st EXCEPT !.ok = FALSE]

\* The record_emit_point calls of emit: <<runtime address, move id>> for
\* every address of every move range and its end, and under BASE at the two
\* ends of a range of another move id.
emit_points(move_ranges) ==
    UNION {LET start_addr == move_ranges[i][1]
               end_addr == move_ranges[i][2]
               move_id == move_id_for_binary_addr[start_addr]
           IN  {<<convert_binary_to_runtime_addr(move_id, a), move_id>> :
                    a \in start_addr .. end_addr}
               \cup (IF move_id # base_move_id
                     THEN {<<start_addr, base_move_id>>, <<end_addr, base_move_id>>}
                     ELSE {})
           : i \in 1 .. Len(move_ranges)}

\* Label.notify_emit_opportunity for every point.
notify_emit_opportunity(objs, points) ==
    [r \in LabelAddrs |->
        [objs[r] EXCEPT !.emit_opportunities =
                            @ \cup {p[2] : p \in {q \in points : q[1] = r}}]]

\* The heads of the classifications from the address up to the end.
RECURSIVE range_heads(_, _, _)
range_heads(cls, addr, end_addr) ==
    IF addr >= end_addr \/ cls[addr].len = 0 THEN <<>>
    ELSE <<addr>> \o range_heads(cls, addr + cls[addr].len, end_addr)

\* assert addr == end_addr: the classifications tile the range.
range_tiles(cls, start_addr, end_addr) ==
    LET tiles(h) == h # <<>> /\ h[Len(h)] + cls[h[Len(h)]].len = end_addr
    IN  value_of({tiles(h) : h \in {range_heads(cls, start_addr, end_addr)}})

\* One call of Label.definition_string_list: the label, the address the
\* line is emitted at, and the binary location.
DefinitionCall(label, emit_addr, binary_addr, move_id) ==
    [label |-> label, emit_addr |-> emit_addr, binary_addr |-> binary_addr,
     move_id |-> move_id]

\* A line that defines names of the label at addr.
Definition(names, addr, how, call) ==
    [names |-> names, addr |-> addr, how |-> how,
     at |-> <<call.binary_addr, call.move_id>>]

\* Label.definition_string_list(emit_addr, binary_loc), which comes down to
\* collate_explicit_names_for_move_id: the names of the move id that are not
\* emitted yet are defined inline (or as name = label+offset, which asks
\* for the label of emit_addr) and are flagged as emitted. The loop over
\* the leftover move ids calls with the same binary_loc again and finds
\* nothing left.
definition_string_list(st0, call0) ==
    LET collate(st, call, names, st1) ==
            LET offset == call.label - call.emit_addr
                old == st1.objs[call.label].explicit_names[call.move_id]
                flagged == [i \in 1 .. Len(old) |->
                               IF \E j \in 1 .. Len(names) : names[j].text = old[i].text
                               THEN [old[i] EXCEPT !.emitted = TRUE]
                               ELSE old[i]]
            IN  IF ~st1.ok THEN st1
                ELSE [st1 EXCEPT
                         !.objs[call.label].explicit_names[call.move_id] = flagged,
                         !.out = @ \o [i \in 1 .. Len(names) |->
                                          Definition({names[i].text}, call.label,
                                                     IF offset = 0 THEN "inline"
                                                     ELSE "offset",
                                                     call)]]
        gather(st, call, names) ==
            value_of({collate(st, call, names, st1) :
                      st1 \in {IF call.label # call.emit_addr /\ names # <<>>
                               THEN resolve(st, <<call.emit_addr, call.binary_addr,
                                                  call.move_id>>)
                               ELSE st}})
        f(st, call) ==
            IF ~st.ok THEN st
            ELSE IF call.emit_addr > call.label THEN [st EXCEPT !.ok = FALSE]
            ELSE IF ~st.objs[call.label].definable_inline THEN st
            ELSE value_of({gather(st, call, names) :
                           names \in {SelectSeq(
                                          st.objs[call.label].explicit_names[call.move_id],
                                          LAMBDA n : ~n.emitted)}})
    IN  value_of({f(s, c) : s \in {st0}, c \in {call0}})

\* One step of the walk: a call of definition_string_list for the label, made
\* for the labels of an address (emit_labels) or for a label inside the
\* classification at the address (pending); line: the lines of the
\* classification follow.
EmitStep(label, emit_addr, binary_addr, move_id, pending, line) ==
    [label |-> label, emit_addr |-> emit_addr, binary_addr |-> binary_addr,
     move_id |-> move_id, pending |-> pending, line |-> line]

\* emit_labels(binary_loc): the definitions of the label at the runtime
\* address of the location under its move id.
emit_labels(binary_addr, move_id, line) ==
    LET runtime_addr == convert_binary_to_runtime_addr(move_id, binary_addr)
    IN  EmitStep(runtime_addr, runtime_addr, binary_addr, move_id, FALSE, line)

\* emit_addr(binary_loc): the labels inside the classification are collected
\* first (pending_labels), then come the labels of the address and the
\* lines of the classification.
emit_addr(cls, binary_addr, move_id) ==
    [i \in 1 .. cls[binary_addr].len - 1 |->
        EmitStep(b2r(binary_addr + i), b2r(binary_addr), binary_addr, move_id,
                 TRUE, FALSE)]
    \o <<emit_labels(binary_addr, move_id, TRUE)>>

RECURSIVE emit_heads(_, _, _, _)
emit_heads(cls, heads, move_id, i) ==
    IF i > Len(heads) THEN <<>>
    ELSE emit_addr(cls, heads[i], move_id) \o emit_heads(cls, heads, move_id, i + 1)

\* The steps of one move range: under another move id than BASE the labels
\* of BASE come before and after the pseudopc block.
emit_range(cls, start_addr, end_addr) ==
    LET move_id == move_id_for_binary_addr[start_addr]
        base(addr) == IF move_id # base_move_id
                      THEN <<emit_labels(addr, base_move_id, FALSE)>>
                      ELSE <<>>
    IN  base(start_addr)
        \o emit_heads(cls, range_heads(cls, start_addr, end_addr), move_id, 1)
        \o <<emit_labels(end_addr, move_id, FALSE)>>
        \o base(end_addr)

RECURSIVE emit_ranges(_, _, _)
emit_ranges(cls, move_ranges, i) ==
    IF i > Len(move_ranges) THEN <<>>
    ELSE emit_range(cls, move_ranges[i][1], move_ranges[i][2])
         \o emit_ranges(cls, move_ranges, i + 1)

\* One step of the walk is made: the definitions of a pending label are
\* held back until the labels of the address are output.
emit_step(st0, step0) ==
    LET call(step) == DefinitionCall(step.label, step.emit_addr, step.binary_addr,
                                    step.move_id)
        hold(st, p) == [p EXCEPT !.out = st.out, !.held = st.held \o p.out]
        line(st, step, l) ==
            IF ~l.ok THEN l
            ELSE IF step.line /\ ~as_string_list_assert(l.cls, step.binary_addr)
            THEN [l EXCEPT !.ok = FALSE]
            ELSE [l EXCEPT
                     !.out = @ \o st.held,
                     !.held = <<>>,
                     !.lazies = IF step.line
                                THEN @ \o operand_lazies(l.cls, step.binary_addr)
                                ELSE @]
        f(st, step) ==
            IF ~st.ok THEN st
            ELSE IF step.pending
            THEN IF /\ step.label \in st.labs
                    /\ st.objs[step.label].definable_inline
                 THEN value_of({hold(st, p) :
                                p \in {definition_string_list(
                                           [st EXCEPT !.out = <<>>], call(step))}})
                 ELSE st
            ELSE value_of({line(st, step, l) :
                           l \in {definition_string_list(
                                      [st EXCEPT !.labs = @ \cup {step.label}],
                                      call(step))}})
    IN  value_of({f(s, c) : s \in {st0}, c \in {step0}})

RECURSIVE emit_steps(_, _, _)
emit_steps(st, steps, i) ==
    IF i > Len(steps) THEN st
    ELSE emit_steps(emit_step(st, steps[i]), steps, i + 1)

\* The asserts of the pass that records the emit opportunities: the
\* classifications tile every move range.
ranges_tile(cls, move_ranges) ==
    \A i \in 1 .. Len(move_ranges) :
        range_tiles(cls, move_ranges[i][1], move_ranges[i][2])

\* The names of the label that are not emitted yet.
not_emitted(label) ==
    UNION {{n.text : n \in {x \in Range(label.explicit_names[m]) : ~x.emitted}} :
           m \in MoveIds}

\* Label.find_max_explicit_name_length raises: it takes max() of the int
\* and name.text for a name that is not emitted, a TypeError.
find_max_explicit_name_length_raises(label) == not_emitted(label) # {}

\* labelmanager.find_max_explicit_name_length: the longest over the labels.
find_max_raises(st) ==
    \E r \in st.labs : find_max_explicit_name_length_raises(st.objs[r])

\* Label.explicit_definition_string_list for sorted(labelmanager.labels):
\* the names not emitted yet are output as name = value lines, sorted by
\* name, and flagged.
explicit_definitions(st) ==
    LET lines(addrs) ==
            [i \in 1 .. Len(addrs) |->
                [names |-> not_emitted(st.objs[addrs[i]]), addr |-> addrs[i],
                 how |-> "explicit", at |-> <<>>]]
    IN  value_of({lines(a) :
                  a \in {SelectSeq(sorted(st.labs),
                                   LAMBDA r : not_emitted(st.objs[r]) # {})}})

flag_all_emitted(st) ==
    [r \in LabelAddrs |->
        IF r \in st.labs
        THEN [st.objs[r] EXCEPT !.explicit_names =
                 [m \in MoveIds |->
                     [i \in 1 .. Len(@[m]) |-> [@[m][i] EXCEPT !.emitted = TRUE]]]]
        ELSE st.objs[r]]

\* emit(): the classifications are split at the ends of the move ranges,
\* the emit opportunities are recorded, the ranges are walked, the names
\* left over are defined explicitly ahead of the walk's lines, and the join
\* of the lines resolves the LazyStrings of the operands.
emit(st0) ==
    LET join(walked) ==
            IF ~walked.ok THEN walked
            ELSE IF find_max_raises(walked) THEN [walked EXCEPT !.ok = FALSE]
            ELSE value_of({resolve_all(e, e.lazies, 1) :
                           e \in {[walked EXCEPT
                                      !.objs = flag_all_emitted(walked),
                                      !.out = explicit_definitions(walked) \o @]}})
        walk(isolated, move_ranges, points) ==
            IF ~isolated.ok THEN isolated
            ELSE IF ~ranges_tile(isolated.cls, move_ranges)
            THEN [isolated EXCEPT !.ok = FALSE]
            ELSE value_of({join(walked) :
                           walked \in {emit_steps(
                               [isolated EXCEPT
                                   !.objs = notify_emit_opportunity(@, points),
                                   !.labs = @ \cup {p[1] : p \in points}],
                               emit_ranges(isolated.cls, move_ranges, 1), 1)}})
        isolate(st, move_ranges) ==
            value_of({walk(isolated, move_ranges, points) :
                      isolated \in {isolate_ranges(st, move_ranges, 1)},
                      points \in {emit_points(move_ranges)}})
    IN  value_of({isolate(s, r) : s \in {st0}, r \in {calculate_move_ranges}})

\* One entry of d, the main disassembly output of emit: a directive of the
\* formatter or the lines of one classification.
Directive(kind, dest, addr, length, move_id, first) ==
    [k |-> kind, dest |-> dest, addr |-> addr, len |-> length,
     move_id |-> move_id, first |-> first]

\* formatter.code_start(start_addr, end_addr, first): org start_addr.
code_start(start_addr, end_addr, first) ==
    Directive("code_start", NoneInt, start_addr, end_addr - start_addr,
              base_move_id, first)

\* formatter.pseudopc_start(dest, source, length, move_id)
pseudopc_start(dest, source, length, move_id) ==
    Directive("pseudopc_start", dest, source, length, move_id, FALSE)

\* formatter.pseudopc_end(dest, source, length, move_id)
pseudopc_end(dest, source, length, move_id) ==
    Directive("pseudopc_end", dest, source, length, move_id, FALSE)

\* The loop of emit that outputs the disassembly of each range in turn: an
\* ORG at the beginning, the start of a pseudopc block under another move id
\* than BASE and otherwise a new ORG if the range does not start at the end
\* of the one before, the lines of the classifications, the end of the
\* pseudopc block.
RECURSIVE emit_directives(_, _, _, _)
emit_directives(cls, move_ranges, i, old_end_addr) ==
    IF i > Len(move_ranges) THEN <<>>
    ELSE
    LET start_addr == move_ranges[i][1]
        end_addr == move_ranges[i][2]
        move_id == move_id_for_binary_addr[start_addr]
        beginning == IF old_end_addr = NoneInt
                     THEN <<code_start(start_addr, end_addr, TRUE)>>
                     ELSE <<>>
        old == IF old_end_addr = NoneInt THEN start_addr ELSE old_end_addr
        block_start ==
            IF move_id # base_move_id
            THEN <<pseudopc_start(b2r(start_addr), start_addr,
                                  end_addr - start_addr, move_id)>>
            ELSE IF start_addr # old
            THEN <<code_start(start_addr, end_addr, FALSE)>>
            ELSE <<>>
        body(heads) ==
            [j \in 1 .. Len(heads) |->
                Directive("classification", NoneInt, heads[j], cls[heads[j]].len,
                          move_id, FALSE)]
        block_end ==
            IF move_id # base_move_id
            THEN <<pseudopc_end(b2r(start_addr), start_addr,
                                end_addr - start_addr, move_id)>>
            ELSE <<>>
    IN  beginning \o block_start
        \o value_of({body(h) : h \in {range_heads(cls, start_addr, end_addr)}})
        \o block_end
        \o emit_directives(cls, move_ranges, i + 1, end_addr)

\* classification.emit2 after the leftovers are classified: the label names
\* are fixed, then emit runs.
emit2(st) == emit(fix_label_names(st))

\* The runs of emit a script makes.
MaxEmits == 2

\* emit2(): an exception leaves the changes made before it.
Emit ==
    /\ ~raising
    /\ phase = "done"
    /\ Len(outputs) < MaxEmits
    /\ \E r \in {emit2([objs |-> label_objects, labs |-> labels, res |-> resolved,
                        ok |-> TRUE, out |-> <<>>, held |-> <<>>,
                        lazies |-> <<>>,
                        cls |-> classifications])} :
           /\ raising' = ~r.ok
           /\ label_objects' = r.objs
           /\ labels' = r.labs
           /\ resolved' = r.res
           /\ classifications' = r.cls
           /\ outputs' = IF r.ok THEN Append(outputs, r.out) ELSE outputs
           /\ \E move_ranges \in {calculate_move_ranges} :
                 last' = [op |-> "emit", ok |-> r.ok, move_ranges |-> move_ranges,
                          d |-> IF r.ok
                                THEN emit_directives(r.cls, move_ranges, 1, NoneInt)
                                ELSE <<>>]
    /\ UNCHANGED <<moveVars, constVars, exprVars, optional_labels, lazy_names, script_pos>>
    /\ UNCHANGED <<memory_binary, disassembly_range, entry_points, references,
                   annotations, jsr_hooks, phase, trace_done>>

\* The script of the emitter: the image of the label script with its last
\* byte moved to 4, the label calls, the trace and the runs of emit.
EmitMove == <<4, 3, 1>>

NextEmit ==
    \/ phase = "script" /\ Load(0, LabelImage, NoMd5)
    \/ /\ phase = "setup"
       /\ script_pos = 0
       /\ Len(move_definitions) = 1
       /\ AddMove(EmitMove[1], EmitMove[2], EmitMove[3])
    \/ \E k \in 1 .. Len(LabelScript) : LabelCall(k)
    \/ phase = "setup" /\ Entry(0)
    \/ Go
    \/ TraceStep
    \/ ClassifyLeftovers
    \/ Emit

SpecEmit == Init /\ [][NextEmit]_vars

\* ------------------------------------------------- terminated strings
\* movemanager.r2b_checked: r2b, refusing a runtime address that no single
\* binary address stands for.
r2b_checked_raises(runtime_addr) == r2b(runtime_addr) = <<>>

\* The while loop of stringterm: memory_binary is read at initial_addr,
\* initial_addr + 1, ... until the byte read equals the terminator; a byte
\* that is not loaded is None, which differs from every terminator. The
\* result is the address of the terminator, or MemSize when the index runs
\* off the end of the array (IndexError).
scan(initial_addr, terminator) ==
    LET found == {a \in initial_addr .. MemSize - 1 : memory_binary[a] = terminator}
    IN  IF found = {} THEN MemSize
        ELSE CHOOSE a \in found : \A b \in found : a <= b

\* The addresses of memory_binary the loop has read when it stops.
scan_reads(initial_addr, terminator) ==
    {a \in Addrs : initial_addr <= a /\ a <= scan(initial_addr, terminator)}

\* stringterm(runtime_addr, terminator, exclude_terminator): the outcome of
\* the call, with the addresses read, the classifications array it leaves,
\* the runtime address it returns and whether it raised.
stringterm(runtime_addr, terminator, exclude_terminator) ==
    IF r2b_checked_raises(runtime_addr)
    THEN [ok |-> FALSE, addr |-> NoneInt, reads |-> {},
          cls |-> classifications, result |-> NoneInt]
    ELSE LET initial_addr == r2b(runtime_addr)[1]
             binary_addr == scan(initial_addr, terminator)
             string_length == IF exclude_terminator
                              THEN binary_addr - initial_addr
                              ELSE (binary_addr + 1) - initial_addr
             c == String(string_length)
             base == [ok |-> FALSE, addr |-> initial_addr,
                      reads |-> scan_reads(initial_addr, terminator),
                      cls |-> classifications, result |-> NoneInt]
             added == IF string_length > 0
                      THEN [base EXCEPT !.cls = add_classification(classifications, initial_addr, c)]
                      ELSE base
         IN  IF binary_addr = MemSize THEN base
             ELSE IF string_length > 0 /\ is_classified(classifications, initial_addr, string_length)
             THEN base
             ELSE IF ~is_valid_addr(binary_addr + 1)
                     \/ ~b2r_assert(move_definitions, move_id_for_binary_addr, binary_addr + 1)
             THEN added
             ELSE [added EXCEPT !.ok = TRUE, !.result = b2r(binary_addr + 1)]

\* stringcr and stringz: stringterm with ASCII 13 and 0.
stringcr(runtime_addr, exclude_terminator) ==
    stringterm(runtime_addr, 13, exclude_terminator)

stringz(runtime_addr, exclude_terminator) ==
    stringterm(runtime_addr, 0, exclude_terminator)

\* A call of one of the three from the control script, r being its outcome.
StringCall(runtime_addr, terminator, r) ==
    /\ ~raising
    /\ phase = "setup"
    /\ classifications' = r.cls
    /\ raising' = ~r.ok
    /\ last' = [op |-> "stringterm", arg |-> runtime_addr,
                terminator |-> terminator, addr |-> r.addr,
                reads |-> r.reads, result |-> r.result]
    /\ UNCHANGED <<moveVars, traceVars, outputVars>>

StringTerm(runtime_addr, terminator, exclude_terminator) ==
    StringCall(runtime_addr, terminator,
               stringterm(runtime_addr, terminator, exclude_terminator))

StringCr(runtime_addr, exclude_terminator) ==
    StringCall(runtime_addr, 13, stringcr(runtime_addr, exclude_terminator))

StringZ(runtime_addr, exclude_terminator) ==
    StringCall(runtime_addr, 0, stringz(runtime_addr, exclude_terminator))

\* The terminators the script passes to stringterm itself.
Terminators == {\h20, \hFF}

\* The script of the string calls: one image, moves, then string calls.
NextString ==
    \/ \E a \in LoadAddrs, n \in LoadLengths :
          \E data \in [1 .. n -> ByteSet] :
              phase = "script" /\ Load(a, data, NoMd5)
    \/ /\ phase = "setup"
       /\ Len(move_definitions) = 1
       /\ AddMove(TraceMoves[1][1], TraceMoves[1][2], TraceMoves[1][3])
    \/ \E a \in Addrs, t \in Terminators, e \in BOOLEAN : StringTerm(a, t, e)
    \/ \E a \in Addrs, e \in BOOLEAN : StringCr(a, e)
    \/ \E a \in Addrs, e \in BOOLEAN : StringZ(a, e)

SpecString == Init /\ [][NextString]_vars

\* ------------------------------------------------------------ expressions
\* The values check_expr compares: a Python int, or a str given by the codes
\* of its characters (an int never equals a str).
IntValue(v) == [t |-> "int", v |-> <<v>>]
StrValue(codes) == [t |-> "str", v |-> codes]

\* classification.add_expression(binary_addr, s): the first expression given
\* for an address stays.
add_expression_at(exprs, binary_addr, s) ==
    IF binary_addr \in DOMAIN exprs THEN exprs
    ELSE [b \in DOMAIN exprs \cup {binary_addr} |->
             IF b = binary_addr THEN s ELSE exprs[b]]

\* assert_expr(expr, value): _pending_assertions[expr] = value.
assert_expr(pa, expr, value) ==
    [e \in DOMAIN pa \cup {expr} |-> IF e = expr THEN value ELSE pa[e]]

\* check_expr without its loop over the constants.
check_expr_always_asserts(cs, pa, expr, value) ==
    [pa |-> assert_expr(pa, expr, value), ok |-> TRUE]

\* check_expr(expr, value): the first constant that has the expression as its
\* name ends the call (utils.die when it is neither CHAR nor STRING and its
\* value differs); with no such constant the assertion goes to the assembler.
check_expr(cs, pa, expr, value) ==
    LET checked(i) ==
            IF i = 0 THEN [pa |-> assert_expr(pa, expr, value), ok |-> TRUE]
            ELSE IF cs[i].format \in {"CHAR", "STRING"} THEN [pa |-> pa, ok |-> TRUE]
            ELSE [pa |-> pa, ok |-> cs[i].value = value]
    IN  value_of({checked(i) : i \in {first_named(cs, expr)}})

\* The loop of get_expression over the bytes of a String.
string_at_binary(binary_addr, length) ==
    [i \in 1 .. length |-> memory_binary[binary_addr + i - 1]]

\* get_expression(binary_addr, expected_value): for a String the expected
\* value is the text in the binary; the expression is checked and returned.
get_expression(pa, binary_addr, expected_value) ==
    LET c == classifications[binary_addr]
    IN  check_expr(constants, pa, expressions[binary_addr],
                   IF c.k = "string"
                   THEN StrValue(string_at_binary(binary_addr, c.len))
                   ELSE expected_value)

\* What a line shows for its operand: the expression, the literal of the
\* binary, or nothing.
Expression(s) == [k |-> "expr", s |-> s]
Literal == [k |-> "literal", s |-> ""]
NoOperand == [k |-> "none", s |-> ""]

\* The line of the classification at addr, its operand taken from the
\* address at.
Line(addr, at, operand) == [addr |-> addr, at |-> at, operand |-> operand]

\* get_constant8(binary_addr), as a step of the emission: the expression
\* when the address has one, the formatted byte otherwise.
get_constant8(st, head, binary_addr) ==
    IF binary_addr \in DOMAIN expressions
    THEN LET r == get_expression(st.pa, binary_addr,
                                 IntValue(memory_binary[binary_addr]))
             put(c) == [pa |-> c.pa, ok |-> c.ok,
                        out |-> Append(st.out, Line(head, binary_addr,
                                   Expression(expressions[binary_addr])))]
         IN  value_of({put(c) : c \in {r}})
    ELSE [st EXCEPT !.out = Append(@, Line(head, binary_addr, Literal))]

\* as_string_list of the classification at binary_addr: a String shows its
\* expression or its text, an immediate instruction the constant of its
\* operand byte, an instruction without operand its mnemonic.
as_string_list(st, binary_addr) ==
    LET c == classifications[binary_addr]
    IN  IF c.k = "string"
        THEN get_constant8(st, binary_addr, binary_addr)
        ELSE IF opcode_class(memory_binary[binary_addr]) = "Immediate"
        THEN get_constant8(st, binary_addr, binary_addr + 1)
        ELSE [st EXCEPT !.out = Append(@, Line(binary_addr, binary_addr, NoOperand))]

\* The loop of emit over the classifications of the range; utils.die ends it.
RECURSIVE emit_lines(_, _, _)
emit_lines(st, heads, i) ==
    IF i > Len(heads) \/ ~st.ok THEN st
    ELSE emit_lines(as_string_list(st, heads[i]), heads, i + 1)

\* expr(addr, s)
Expr(addr, s) ==
    /\ ~raising
    /\ phase = "setup"
    /\ expressions' = add_expression_at(expressions, addr, s)
    /\ last' = [op |-> "expr", arg |-> addr, s |-> s]
    /\ UNCHANGED <<moveVars, classVars, traceVars, constVars, labelVars,
                   emitVars, pending_assertions, listing, raising>>

\* go() after the trace: the lines of the classifications are formatted in
\* address order; a check_expr that dies leaves no output.
EmitLines ==
    /\ ~raising
    /\ phase = "done"
    /\ listing = <<>>
    /\ \E r \in {emit_lines([pa |-> pending_assertions, ok |-> TRUE, out |-> <<>>],
                            range_heads(classifications, disassembly_range[1],
                                        disassembly_range[2]), 1)} :
          /\ pending_assertions' = r.pa
          /\ listing' = IF r.ok THEN r.out ELSE listing
          /\ raising' = ~r.ok
          /\ last' = [op |-> "emit_lines", ok |-> r.ok]
    /\ UNCHANGED <<moveVars, classVars, traceVars, constVars, labelVars,
                   emitVars, expressions>>

\* The script of the expressions: an image with an immediate instruction at
\* 0, a return at 2 and two characters at 3; string(3, 2), constants named
\* page, expressions on the operand byte and on the string, entry(0), go().
ExprImage == <<\hA9, \h20, \h00, \h41, \h42>>
ExprAddrs == {1, 3}
ExprTexts == {"page", "x"}
ExprValues == {IntValue(\h20), IntValue(25), StrValue(<<\h41, \h42>>)}
ExprFormats == {"DEFAULT", "STRING"}

NextExpr ==
    \/ phase = "script" /\ Load(0, ExprImage, NoMd5)
    \/ phase = "setup" /\ AddClassification(3, String(2))
    \/ \E v \in ExprValues, f \in ExprFormats :
          phase = "setup" /\ constants = <<>> /\ AddConstant(v, "page", "", f)
    \/ \E a \in ExprAddrs, s \in ExprTexts : Expr(a, s)
    \/ classifications[3] = String(2) /\ Entry(0)
    \/ Go
    \/ TraceStep
    \/ ClassifyLeftovers
    \/ EmitLines

SpecExpr == Init /\ [][NextExpr]_vars

\* ------------------------------------------------- absolute instructions
\* Rows of trace6502.opcodes for absolute addressing and the zero page row
\* of the same mnemonic: OpcodeDataAbs("LDA"), OpcodeDataAbs("LDA", ",Y",
\* has_zp_version=False), OpcodeDataAbs("LDX", ",Y"), OpcodeJmpAbs() and
\* OpcodeZp("LDA").
opcodes(opcode_value) ==
    CASE opcode_value = \hAD ->
            [class |-> "Abs", mnemonic |-> "LDA", suffix |-> "", has_zp_version |-> TRUE]
      [] opcode_value = \hB9 ->
            [class |-> "Abs", mnemonic |-> "LDA", suffix |-> ",Y", has_zp_version |-> FALSE]
      [] opcode_value = \hBE ->
            [class |-> "Abs", mnemonic |-> "LDX", suffix |-> ",Y", has_zp_version |-> TRUE]
      [] opcode_value = \h4C ->
            [class |-> "Abs", mnemonic |-> "JMP", suffix |-> "", has_zp_version |-> FALSE]
      [] opcode_value = \hA5 ->
            [class |-> "Zp", mnemonic |-> "LDA", suffix |-> "", has_zp_version |-> FALSE]

\* The opcode values of the rows above.
AbsOpcodes == {\hAD, \hB9, \hBE, \h4C}
ZpOpcodes == {\hA5}

\* memorymanager.get_u16_binary(binary_addr): the little-endian word.
get_u16_binary(binary_addr) ==
    memory_binary[binary_addr] + 256 * memory_binary[binary_addr + 1]

\* The operand get_address16 returns without an expression: the label
\* get_label gives for the address the word holds.
LabelOperand == [k |-> "label", s |-> ""]

\* get_address16(binary_addr): the expression, checked against the word, when
\* the address has one, the label of the word otherwise.
get_address16(pa, binary_addr) ==
    IF binary_addr \in DOMAIN expressions
    THEN LET put(c) == [pa |-> c.pa, ok |-> c.ok,
                        operand |-> Expression(expressions[binary_addr])]
         IN  value_of({put(c) : c \in {get_expression(pa, binary_addr,
                                          IntValue(get_u16_binary(binary_addr)))}})
    ELSE [pa |-> pa, ok |-> TRUE, operand |-> LabelOperand]

\* An output line: the instruction with its operand, or the data bytes
\* "equb opcode, <(operand), >(operand)".
InstructionLine(mnemonic, suffix, operand) ==
    [form |-> "instruction", mnemonic |-> mnemonic, suffix |-> suffix,
     opcode |-> NoneInt, operand |-> operand]
DataLine(opcode_value, operand) ==
    [form |-> "data", mnemonic |-> "", suffix |-> "",
     opcode |-> opcode_value, operand |-> operand]
NoLine == [form |-> "none", mnemonic |-> "", suffix |-> "",
           opcode |-> NoneInt, operand |-> NoOperand]

\* Beebasm.force_abs_instruction: None, the assembler has no such syntax.
force_abs_instruction(instruction, prefix, operand, suffix) == NoLine

\* OpcodeAbs.as_string(addr): the instruction as it is, unless it has a zero
\* page version and its operand is below 0x100; then the form the assembler
\* offers to force absolute addressing, and failing that the data bytes.
as_string(pa, addr) ==
    LET row == opcodes(memory_binary[addr])
        line(r) ==
            [pa |-> r.pa, ok |-> r.ok,
             line |-> IF ~row.has_zp_version \/ get_u16_binary(addr + 1) >= 256
                      THEN InstructionLine(row.mnemonic, row.suffix, r.operand)
                      ELSE IF force_abs_instruction(row.mnemonic, "", r.operand,
                                                    row.suffix) # NoLine
                      THEN force_abs_instruction(row.mnemonic, "", r.operand,
                                                 row.suffix)
                      ELSE DataLine(memory_binary[addr], r.operand)]
    IN  value_of({line(r) : r \in {get_address16(pa, addr + 1)}})

\* The instruction images and the annotations of the script: the opcode and
\* the two operand bytes, and at most one constant, with or without an
\* expression naming it on the operand.
OperandLows == {\h00, \h12}
OperandHighs == {\h00, \h01}
AsmValues == {IntValue(\h12), StrValue(<<\h12>>), StrValue(<<\h41>>)}
AsmFormats == {"DEFAULT", "CHAR"}
AsmImage(opcode_value, low, high) ==
    [b \in Addrs |-> CASE b = 0 -> opcode_value
                       [] b = 1 -> low
                       [] b = 2 -> high
                       [] OTHER -> NoneInt]

\* The state after load, constant, expr and the trace of one absolute
\* instruction at 0.
InitAsm ==
    /\ InitMoves
    /\ \E op \in AbsOpcodes, low \in OperandLows, high \in OperandHighs :
          memory_binary = AsmImage(op, low, high)
    /\ classifications = add_classification([b \in Addrs |-> None], 0, Instruction(3))
    /\ disassembly_range = <<0, 3>>
    /\ entry_points = <<>>
    /\ references = {}
    /\ labels = {}
    /\ annotations = [b \in Addrs |-> 0]
    /\ jsr_hooks = NoHooks
    /\ phase = "done"
    /\ trace_done = trace_finished
    /\ \/ constants = <<>>
       \/ \E v \in AsmValues, f \in AsmFormats :
             constants = <<Constant(v, "ch", "", f)>>
    /\ \/ expressions = [b \in {} |-> ""]
       \/ constants # <<>> /\ expressions = [b \in {1} |-> "ch"]
    /\ optional_labels = [r \in {} |-> <<>>]
    /\ label_objects = [r \in LabelAddrs |-> Label]
    /\ lazy_names = {}
    /\ resolved = {}
    /\ config_loop_limit = loop_limit
    /\ user_label_maker_hook = NoHook
    /\ state = CpuState
    /\ updates = 0
    /\ outputs = <<>>
    /\ pending_assertions = [e \in {} |-> <<>>]
    /\ listing = <<>>
    /\ script_pos = 0

\* The line of the instruction at addr is formatted.
AsString(addr) ==
    /\ ~raising
    /\ last.op # "as_string"
    /\ \E r \in {as_string(pending_assertions, addr)} :
          /\ pending_assertions' = r.pa
          /\ raising' = ~r.ok
          /\ last' = [op |-> "as_string", arg |-> addr, line |-> r.line]
    /\ UNCHANGED <<moveVars, classVars, traceVars, constVars, labelVars,
                   emitVars, expressions, listing>>

NextAsm == AsString(0)

SpecAsm == InitAsm /\ [][NextAsm]_vars

\* ------------------------------------------------------------- assembler
\* The opcode the assembler has for the mnemonic and suffix with a two byte
\* operand and with a one byte operand (None: no such addressing mode).
abs_opcode(mnemonic, suffix) ==
    value_of({op \in AbsOpcodes :
                 opcodes(op).mnemonic = mnemonic /\ opcodes(op).suffix = suffix})

zp_opcode(mnemonic, suffix) ==
    LET rows == {op \in ZpOpcodes :
                    opcodes(op).mnemonic = mnemonic /\ opcodes(op).suffix = suffix}
    IN  IF rows = {} THEN NoneInt ELSE value_of(rows)

\* The value the assembler finds for an operand: the value the constant was
\* defined with (the code of the character for 'c'), or the address of the
\* label.
operand_value(operand, binary_addr) ==
    IF operand.k = "expr"
    THEN constants[first_named(constants, operand.s)].value.v[1]
    ELSE get_u16_binary(binary_addr)

\* The bytes the assembler produces for the line: an instruction takes the
\* zero page opcode when there is one and the operand is below 0x100.
assemble(line, binary_addr) ==
    LET value == operand_value(line.operand, binary_addr + 1)
    IN  IF line.form = "data"
        THEN <<line.opcode, value % 256, value \div 256>>
        ELSE IF value < 256 /\ zp_opcode(line.mnemonic, line.suffix) # NoneInt
        THEN <<zp_opcode(line.mnemonic, line.suffix), value>>
        ELSE <<abs_opcode(line.mnemonic, line.suffix), value % 256, value \div 256>>


\* -------------------------------------------------------------- move ranges
\* memorymanager.load_ranges: a set of disjoint ranges <<lo, hi>> of loaded
\* bytes, each within the addresses load() accepts.
LoadRanges == {<<lo, hi>> : lo \in 0 .. MemSize - 2, hi \in 1 .. MemSize - 1} \cap
              {r \in Nat \X Nat : r[1] < r[2]}
LoadRangeSets ==
    {S \in SUBSET LoadRanges :
        \A r \in S, q \in S : r = q \/ r[2] <= q[1] \/ q[2] <= r[1]}

\* sorted() of a set of disjoint ranges.
RECURSIVE sorted_ranges(_)
sorted_ranges(S) ==
    IF S = {} THEN <<>>
    ELSE LET least == CHOOSE r \in S : \A q \in S : r[1] <= q[1]
         IN  <<least>> \o sorted_ranges(S \ {least})

\* The locals of calculate_move_ranges before its loops; current_range_end
\* is not bound yet.
NoCurrentRange ==
    [move_ranges |-> <<>>, current_range_start |-> NoneInt,
     current_range_end |-> NoneInt, current_range_end_bound |-> FALSE,
     current_range_move_id |-> NoneInt]

\* The first if of the inner loop: the current range grows by the address
\* or is appended and closed.
grow_or_close(owner, st, binary_addr) ==
    IF st.current_range_start = NoneInt THEN st
    ELSE IF /\ binary_addr = st.current_range_end
            /\ owner[binary_addr] = st.current_range_move_id
    THEN [st EXCEPT !.current_range_end = binary_addr + 1]
    ELSE [st EXCEPT !.move_ranges = Append(@, <<st.current_range_start,
                                                 st.current_range_end>>),
                    !.current_range_start = NoneInt]

\* The second if of the inner loop: a range is opened at the address.
open_range(owner, st, binary_addr) ==
    IF st.current_range_start # NoneInt THEN st
    ELSE [st EXCEPT !.current_range_start = binary_addr,
                    !.current_range_end = binary_addr + 1,
                    !.current_range_end_bound = TRUE,
                    !.current_range_move_id = owner[binary_addr]]

\* while binary_addr < end_addr
RECURSIVE scan_load_range(_, _, _, _)
scan_load_range(owner, st, binary_addr, end_addr) ==
    IF binary_addr >= end_addr THEN st
    ELSE value_of({scan_load_range(owner, o, binary_addr + 1, end_addr) :
                      o \in {open_range(owner, g, binary_addr) :
                                g \in {grow_or_close(owner, st, binary_addr)}}})

\* for start_addr, end_addr in sorted(memorymanager.load_ranges)
RECURSIVE scan_load_ranges(_, _, _, _)
scan_load_ranges(owner, st, ranges, i) ==
    IF i > Len(ranges) THEN st
    ELSE value_of({scan_load_ranges(owner, s, ranges, i + 1) :
                      s \in {scan_load_range(owner, st, ranges[i][1], ranges[i][2])}})

\* calculate_move_ranges() for the given load ranges and move ids: the list
\* it returns, or ok = FALSE when the last if reads current_range_end
\* before any assignment to it (UnboundLocalError).
calculate_move_ranges_of(load_ranges, owner) ==
    LET result(st) ==
            [ok |-> st.current_range_end_bound,
             move_ranges |->
                 IF ~st.current_range_end_bound THEN <<>>
                 ELSE IF st.current_range_start # st.current_range_end
                 THEN Append(st.move_ranges, <<st.current_range_start,
                                               st.current_range_end>>)
                 ELSE st.move_ranges]
    IN  value_of({result(st) :
                     st \in {scan_load_ranges(owner, NoCurrentRange,
                                              sorted_ranges(load_ranges), 1)}})

\* calculate_move_ranges() is called with the load ranges as given.
CalculateMoveRanges(load_ranges) ==
    /\ ~raising
    /\ \E r \in {calculate_move_ranges_of(load_ranges, move_id_for_binary_addr)} :
          /\ raising' = ~r.ok
          /\ last' = [op |-> "calculate_move_ranges", arg |-> load_ranges,
                      move_ranges |-> r.move_ranges]
    /\ UNCHANGED <<moveVars, classVars, traceVars, outputVars>>

\* The moves of the script, added in any order: single bytes and a run.
RangeMoves == {<<0, 1, 1>>, <<0, 2, 2>>, <<2, 4, 1>>, <<3, 0, 1>>}

NextRanges ==
    \/ \E m \in RangeMoves : AddMove(m[1], m[2], m[3])
    \/ \E S \in LoadRangeSets : CalculateMoveRanges(S)
    \/ Caught

SpecRanges == Init /\ [][NextRanges]_vars

\* ---------------------------------------------------------------- isolation
\* A script whose moves cut classifications: a JSR, a string and a run of
\* four bytes, under moves of one and of two bytes out of their middle.
IsolateImage == <<\h20, \h03, \h00, \h00, \h00>>
IsolateData == {<<0, String(3)>>, <<1, Byte(4)>>, <<3, Word(2)>>}
IsolateMoves == {<<0, 2, 1>>, <<0, 1, 2>>, <<4, 3, 1>>, <<2, 1, 1>>}

NextIsolate ==
    \/ phase = "script" /\ Load(0, IsolateImage, NoMd5)
    \/ \E m \in IsolateMoves : phase = "setup" /\ AddMove(m[1], m[2], m[3])
    \/ \E u \in IsolateData : phase = "setup" /\ AddClassification(u[1], u[2])
    \/ phase = "setup" /\ Entry(0)
    \/ Go
    \/ TraceStep
    \/ ClassifyLeftovers
    \/ Emit

SpecIsolate == Init /\ [][NextIsolate]_vars

\* -------------------------------------------------------------- cpu state
\* How many update_cpu_state calls a run makes.
MaxUpdates == 3

PyBool(b) == IF b THEN "True" ELSE "False"

\* make_corrupt_rnz(reg)
make_corrupt_rnz(reg, st) ==
    [st EXCEPT ![reg] = <<NoneInt, NoneInt>>, !.n = "None", !.z = "None"]

\* make_corrupt_rnzc(reg)
make_corrupt_rnzc(reg, st) ==
    [st EXCEPT ![reg] = <<NoneInt, NoneInt>>, !.n = "None", !.z = "None",
               !.c = "None"]

\* make_update_flag(flag, b)
make_update_flag(flag, b, st) == [st EXCEPT ![flag] = PyBool(b)]

\* make_decrement(reg)
make_decrement(reg, st) ==
    IF st[reg][1] # NoneInt
    THEN [st EXCEPT ![reg] =
             <<IF st[reg][1] - 1 = -1 THEN \hFF ELSE st[reg][1] - 1, NoneInt>>]
    ELSE st

\* make_increment(reg)
make_increment(reg, st) ==
    IF st[reg][1] # NoneInt
    THEN [st EXCEPT ![reg] =
             <<IF st[reg][1] + 1 = \h100 THEN 0 ELSE st[reg][1] + 1, NoneInt>>]
    ELSE st

\* The & of Python on a byte and 0x80.
And80(v) == IF v >= \h80 THEN \h80 ELSE 0

\* make_load_immediate(reg)
make_load_immediate(reg, addr, st) ==
    [st EXCEPT ![reg] = <<memory_binary[addr + 1], addr + 1>>,
               !.n = PyBool(And80(memory_binary[addr + 1]) = \h80),
               !.z = PyBool(memory_binary[addr + 1] = 0)]

\* make_transfer(src_reg, dest_reg)
make_transfer(src_reg, dest_reg, st) ==
    IF st[src_reg][1] # NoneInt
    THEN [st EXCEPT ![dest_reg] = st[src_reg],
                    !.n = PyBool(And80(st[src_reg][1]) = \h80),
                    !.z = PyBool(st[src_reg][1] = 0)]
    ELSE [st EXCEPT ![dest_reg] = st[src_reg]]

update_nzc(st) == [st EXCEPT !.n = "None", !.z = "None", !.c = "None"]

update_adc_sbc(st) ==
    [st EXCEPT !.n = "None", !.v = "None", !.z = "None", !.c = "None"]

\* The rows of trace6502.opcodes the cpu state is exercised with: the
\* mnemonic, the addressing mode the row's class and suffix give, and the
\* update= argument of the row ("none": the row passes no update function,
\* "branch": the row is an OpcodeConditionalBranch).
opcode_updates ==
    [op \in {\h00, \h01, \h09, \h0A, \h18, \h20, \h65, \h68, \h69, \h70, \h88,
             \h8A, \h98, \hA0, \hA2, \hA4, \hA5, \hA6, \hA8, \hA9, \hAA, \hB4,
             \hB5, \hBA, \hBC, \hC8, \hC9, \hCA, \hD0, \hE8, \hE9, \hEA} |->
        CASE op = \h00 -> <<"BRK", "implied", "none">>
          [] op = \h01 -> <<"ORA", "(zp,X)", "update_anz">>
          [] op = \h09 -> <<"ORA", "immediate", "update_anz">>
          [] op = \h0A -> <<"ASL A", "implied", "update_anzc">>
          [] op = \h18 -> <<"CLC", "implied", "update_flag_c_False">>
          [] op = \h20 -> <<"JSR", "abs", "none">>
          [] op = \h65 -> <<"ADC", "zp", "update_adc_sbc">>
          [] op = \h68 -> <<"PLA", "implied", "update_anz">>
          [] op = \h69 -> <<"ADC", "immediate", "update_adc_sbc">>
          [] op = \h70 -> <<"BVS", "relative", "branch">>
          [] op = \h88 -> <<"DEY", "implied", "decrement_y">>
          [] op = \h8A -> <<"TXA", "implied", "transfer_x_a">>
          [] op = \h98 -> <<"TYA", "implied", "transfer_y_a">>
          [] op = \hA0 -> <<"LDY", "immediate", "load_immediate_y">>
          [] op = \hA2 -> <<"LDX", "immediate", "load_immediate_x">>
          [] op = \hA4 -> <<"LDY", "zp", "update_ynz">>
          [] op = \hA5 -> <<"LDA", "zp", "update_anz">>
          [] op = \hA6 -> <<"LDX", "zp", "update_xnz">>
          [] op = \hA8 -> <<"TAY", "implied", "transfer_a_y">>
          [] op = \hA9 -> <<"LDA", "immediate", "load_immediate_a">>
          [] op = \hAA -> <<"TAX", "implied", "transfer_a_x">>
          [] op = \hB4 -> <<"LDY", "zp,X", "update_anz">>
          [] op = \hB5 -> <<"LDA", "zp,X", "update_anz">>
          [] op = \hBA -> <<"TSX", "implied", "update_xnz">>
          [] op = \hBC -> <<"LDY", "abs,X", "update_ynz">>
          [] op = \hC8 -> <<"INY", "implied", "increment_y">>
          [] op = \hC9 -> <<"CMP", "immediate", "update_nzc">>
          [] op = \hCA -> <<"DEX", "implied", "decrement_x">>
          [] op = \hD0 -> <<"BNE", "relative", "branch">>
          [] op = \hE8 -> <<"INX", "implied", "increment_x">>
          [] op = \hE9 -> <<"SBC", "immediate", "update_adc_sbc">>
          [] op = \hEA -> <<"NOP", "implied", "neutral">>]

\* Opcode.update_cpu_state(addr, state), and the override of
\* OpcodeConditionalBranch: the update function of the row if it has one,
\* state.clear() otherwise.
update_cpu_state(opcode_value, addr, st) ==
    CASE opcode_updates[opcode_value][3] \in {"none", "branch"} -> CpuState
      [] opcode_updates[opcode_value][3] = "neutral" -> st
      [] opcode_updates[opcode_value][3] = "update_anz" -> make_corrupt_rnz("a", st)
      [] opcode_updates[opcode_value][3] = "update_xnz" -> make_corrupt_rnz("x", st)
      [] opcode_updates[opcode_value][3] = "update_ynz" -> make_corrupt_rnz("y", st)
      [] opcode_updates[opcode_value][3] = "update_anzc" -> make_corrupt_rnzc("a", st)
      [] opcode_updates[opcode_value][3] = "update_nzc" -> update_nzc(st)
      [] opcode_updates[opcode_value][3] = "update_adc_sbc" -> update_adc_sbc(st)
      [] opcode_updates[opcode_value][3] = "update_flag_c_False" ->
            make_update_flag("c", FALSE, st)
      [] opcode_updates[opcode_value][3] = "decrement_x" -> make_decrement("x", st)
      [] opcode_updates[opcode_value][3] = "decrement_y" -> make_decrement("y", st)
      [] opcode_updates[opcode_value][3] = "increment_x" -> make_increment("x", st)
      [] opcode_updates[opcode_value][3] = "increment_y" -> make_increment("y", st)
      [] opcode_updates[opcode_value][3] = "load_immediate_a" ->
            make_load_immediate("a", addr, st)
      [] opcode_updates[opcode_value][3] = "load_immediate_x" ->
            make_load_immediate("x", addr, st)
      [] opcode_updates[opcode_value][3] = "load_immediate_y" ->
            make_load_immediate("y", addr, st)
      [] opcode_updates[opcode_value][3] = "transfer_x_a" -> make_transfer("x", "a", st)
      [] opcode_updates[opcode_value][3] = "transfer_y_a" -> make_transfer("y", "a", st)
      [] opcode_updates[opcode_value][3] = "transfer_a_x" -> make_transfer("a", "x", st)
      [] opcode_updates[opcode_value][3] = "transfer_a_y" -> make_transfer("a", "y", st)

\* One call opcode.update_cpu_state(addr, state) for the instruction whose
\* opcode byte is at binary address addr; the operand of a two-byte
\* instruction is loaded with it.
UpdateCpuState(addr) ==
    /\ ~raising
    /\ phase = "setup"
    /\ updates < MaxUpdates
    /\ is_loaded(addr)
    /\ memory_binary[addr] \in DOMAIN opcode_updates
    /\ opcode_updates[memory_binary[addr]][2] = "immediate" => is_loaded(addr + 1)
    /\ state' = update_cpu_state(memory_binary[addr], addr, state)
    /\ updates' = updates + 1
    /\ last' = [op |-> "update_cpu_state", opcode |-> memory_binary[addr],
                addr |-> addr, before |-> state]
    /\ UNCHANGED <<moveVars, classVars, traceVars, constants, config_loop_limit,
                   user_label_maker_hook, labelVars, emitVars, exprVars,
                   raising>>

\* Straight-line code that loads, transfers, steps and overwrites the
\* registers.
CpuImages ==
    { <<\hA0, \h01, \hB4, \h70, \hC8>>,
      <<\hA9, \h80, \h69, \h01, \hAA>>,
      <<\hA2, \hFF, \hE8, \hCA, \h8A>>,
      <<\hA0, \h00, \h88, \h98, \h68>>,
      <<\hA9, \h01, \hA8, \hBA, \hD0>>,
      <<\hA2, \h01, \hA5, \h20, \hA6>>,
      <<\hA0, \h09, \hBC, \hEA, \h18>>,
      <<\hA9, \hC9, \hE9, \h0A, \hA4>> }

NextCpu ==
    \/ \E image \in CpuImages : phase = "script" /\ Load(0, image, NoMd5)
    \/ \E addr \in Addrs : UpdateCpuState(addr)

SpecCpu == Init /\ [][NextCpu]_vars

\* ------------------------------------------------------- output position
\* The data of the load calls of a script with two images: <<addr, bytes>>.
OutputLoads == {<<0, <<\h00, \h00>>>>, <<3, <<\h00, \h00>>>>, <<2, <<\h00>>>>}

\* load(addr, bytes) of the memory manager: the bytes are placed at addr and
\* [addr, addr + len) becomes one more loaded range, disjoint from the
\* others; a load that would extend past the end of memory fails.
MemoryLoad(addr, data) ==
    /\ ~raising
    /\ phase \in {"script", "setup"}
    /\ \A b \in addr .. addr + Len(data) - 1 : ~is_loaded(b)
    /\ raising' = (addr + Len(data) > MemSize)
    /\ memory_binary' =
          IF addr + Len(data) > MemSize THEN memory_binary
          ELSE [b \in Addrs |->
                   IF addr <= b /\ b < addr + Len(data)
                   THEN data[b - addr + 1]
                   ELSE memory_binary[b]]
    /\ phase' = IF addr + Len(data) > MemSize THEN phase ELSE "setup"
    /\ last' = [op |-> "memory_load", arg |-> addr, len |-> Len(data)]
    /\ UNCHANGED outputVars
    /\ UNCHANGED <<moveVars, classVars, disassembly_range, entry_points,
                   references, labels, annotations, jsr_hooks, trace_done>>

OutputMoves == {<<1, 3, 2>>, <<4, 1, 1>>, <<0, 4, 1>>, <<5, 2, 1>>}

NextOutput ==
    \/ \E l \in OutputLoads : MemoryLoad(l[1], l[2])
    \/ \E m \in OutputMoves : phase = "setup" /\ AddMove(m[1], m[2], m[3])
    \/ phase = "setup" /\ Entry(0)
    \/ Go
    \/ TraceStep
    \/ ClassifyLeftovers
    \/ Emit

SpecOutput == Init /\ [][NextOutput]_vars

\* ------------------------------------------------ classifications claims
\* The heads whose span contains binary address b.
Covering(b) ==
    {h \in Addrs : /\ is_object(classifications[h])
                   /\ h <= b
                   /\ b < h + classifications[h].len}

\* The last operation was add_classification on a range holding a byte that
\* was already classified.
OverlappingAdd ==
    /\ last.op = "add_classification"
    /\ \E b \in Addrs : /\ last.arg <= b
                        /\ b < last.arg + last.c.len
                        /\ last.before[b] # None

\* C6: add_classification(addr, c) fails whenever a byte of
\* [addr, addr+length(c)) is already classified, as a head or as a sentinel,
\* and then leaves the classifications array exactly as it was; no byte is
\* ever covered by two classifications, splits included.
C6_OverlapRefused ==
    /\ OverlappingAdd => (raising /\ classifications = last.before)
    /\ \A b \in Addrs : Cardinality(Covering(b)) <= 1

\* An add_classification whose first byte is free was refused because a
\* later byte of its range is a sentinel.
C6_Witness ==
    /\ OverlappingAdd
    /\ raising
    /\ last.before[last.arg] = None
    /\ \E b \in Addrs : /\ last.arg < b
                        /\ b < last.arg + last.c.len
                        /\ last.before[b] = inside_a_classification

\* C7: every classification object stored at addr with length n is followed
\* by exactly n-1 sentinels at addr+1 .. addr+n-1, the entry at addr+n is not
\* a sentinel, and every sentinel lies inside the span of exactly one
\* classification object.
C7_SentinelLayout ==
    /\ \A a \in Addrs :
          is_object(classifications[a]) =>
              /\ \A i \in 1 .. classifications[a].len - 1 :
                    /\ a + i \in Addrs
                    /\ classifications[a + i] = inside_a_classification
              /\ (a + classifications[a].len \in Addrs =>
                    classifications[a + classifications[a].len]
                        # inside_a_classification)
    /\ \A b \in Addrs :
          classifications[b] = inside_a_classification =>
              Cardinality(Covering(b)) = 1

\* The layout of C7 for the classifications that end inside the array.
SentinelLayoutBelowTop ==
    \/ C7_SentinelLayout
    \/ \E a \in Addrs : /\ is_object(classifications[a])
                        /\ a + classifications[a].len > MemSize

\* ------------------------------------------------------------ tracer claims
\* The loaded binary addresses.
Loaded == {a \in Addrs : memory_binary[a] # NoneInt}

\* Sum of the lengths of the classification objects stored at the addresses
\* of S.
RECURSIVE SumOfLengths(_)
SumOfLengths(S) ==
    IF S = {} THEN 0
    ELSE LET a == CHOOSE x \in S : TRUE
         IN  (IF is_object(classifications[a]) THEN classifications[a].len ELSE 0)
             + SumOfLengths(S \ {a})

\* Every loaded address is a head or a sentinel and lies in the span of
\* exactly one head.
LoadedCoveredOnce ==
    \A a \in Loaded :
        /\ classifications[a] # None
        /\ Cardinality(Covering(a)) = 1

\* The lengths of the classifications of the loaded range sum to its length.
LengthsSumToRange == SumOfLengths(Loaded) = Cardinality(Loaded)

\* classify_leftovers changed only entries that were None and are loaded.
LeftoversFillGaps ==
    last.op = "classify_leftovers" =>
        \A a \in Addrs :
            classifications[a] # last.cls[a] =>
                last.cls[a] = None /\ a \in Loaded

\* C1: after go() (trace, then classify_leftovers) every loaded address is
\* covered by exactly one classification, the lengths of the classifications
\* of the loaded range sum to the length of the range, and classify_leftovers
\* never installs a classification over a classified or unloaded byte.
C1_LoadedRangeCovered ==
    phase = "done" =>
        /\ LoadedCoveredOnce
        /\ LengthsSumToRange
        /\ LeftoversFillGaps

\* The parts of C1 other than the sum of the lengths.
CoveredAndGapsOnly ==
    phase = "done" => (LoadedCoveredOnce /\ LeftoversFillGaps)

\* The binary address of runtime address r under move id.
BinaryUnder(id, r) ==
    LET m == move_def(move_definitions, id)
    IN  move_source(m) + (r - move_dest(m))

\* Runtime address r translated back to a binary address while move own is
\* the innermost active move: r itself when no live move targets r, the one
\* live move's address when there is one, and among several the address of
\* own if it is one of them, else of the topmost active one, else nothing.
TranslatedUnder(own, r) ==
    LET S == LiveDestMoves(r)
    IN  IF S = {} THEN <<r>>
        ELSE IF Cardinality(S) = 1 THEN <<BinaryUnder(CHOOSE id \in S : TRUE, r)>>
        ELSE IF own \in S THEN <<BinaryUnder(own, r)>>
        ELSE IF TopmostActiveIn(S) = <<>> THEN <<>>
        ELSE <<BinaryUnder(TopmostActiveIn(S)[1], r)>>

\* The runtime address of binary address b under the move that owns b.
RuntimeOf(b) ==
    LET m == move_def(move_definitions, move_id_for_binary_addr[b])
    IN  move_dest(m) + (b - move_source(m))

\* The displacement the claim gives operand byte d.
Displacement(d) == IF d <= 127 THEN d ELSE d - 256

\* The last step decoded a conditional branch and returned its successors.
BranchDecoded ==
    /\ last.op = "disassemble_instruction"
    /\ last.class = "ConditionalBranch"
    /\ last.raised = "none"

\* The last step decoded a conditional branch and stopped the program in
\* opcode.disassemble.
BranchAborted ==
    /\ last.op = "disassemble_instruction"
    /\ last.class = "ConditionalBranch"
    /\ last.raised = "disassemble"

JsrDecoded ==
    /\ last.op = "disassemble_instruction"
    /\ last.class = "Jsr"
    /\ last.raised = "none"

\* The last step decoded a JSR and stopped the program in opcode.disassemble.
JsrAborted ==
    /\ last.op = "disassemble_instruction"
    /\ last.class = "Jsr"
    /\ last.raised = "disassemble"

\* The hook registered for the target of the JSR at addr, "simple" if none.
HookOf(addr) == jsr_hook(get_u16(addr + 1))

\* The runtime address the hook of the JSR at addr returns.
ReturnedBy(addr) ==
    CASE HookOf(addr) = "simple" -> RuntimeOf(addr) + 3
      [] HookOf(addr) = "stop" -> NoneInt
      [] HookOf(addr) = "skip" -> RuntimeOf(addr) + 4

\* Runtime address r resolved outside the moved region of the JSR.
ResolvedOutside(r) == R2bByClaim(LiveDestMoves(r), r)

\* Where tracing continues after the JSR at addr whose hook returned r.
ContinuationOf(addr, r) ==
    IF r = NoneInt THEN NoneInt
    ELSE IF ResolvedOutside(r) # <<>> THEN ResolvedOutside(r)[1]
    ELSE IF addr + 3 \in Addrs /\ RuntimeOf(addr + 3) = r THEN addr + 3
    ELSE NoneInt

\* C10 as stated: the continuation a registered hook returns is respected
\* (None: none is traced); with no hook registered tracing falls through at
\* binary address addr + 3, for every configuration of moves.
C10_Original ==
    JsrDecoded =>
        IF HookOf(last.arg) = "simple"
        THEN last.result[1] = last.arg + 3
        ELSE last.result[1] = ContinuationOf(last.arg, ReturnedBy(last.arg))

\* The decode of the JSR at addr stops the program: the assert of the
\* default hook fails (the caller's runtime address does not translate back
\* to addr inside the JSR's move), or the returned address is not an address,
\* or it is unresolved and addr + 3 is not an address.
JsrAborts(addr) ==
    \/ /\ HookOf(addr) = "simple"
       /\ TranslatedUnder(move_id_for_binary_addr[addr], RuntimeOf(addr)) # <<addr>>
    \/ /\ ReturnedBy(addr) # NoneInt
       /\ \/ ReturnedBy(addr) \notin Addrs
          \/ ResolvedOutside(ReturnedBy(addr)) = <<>> /\ addr + 3 \notin Addrs

\* C10 amended: the hook registered for the target, or the default hook,
\* which returns b2r(addr) + 3, yields a runtime address r; None means no
\* straight-line continuation; otherwise tracing continues at r2b(r) resolved
\* outside the JSR's moved region, and when that is unresolved at addr + 3 if
\* b2r(addr + 3) = r and nowhere if not.  With no hook tracing therefore falls
\* through at addr + 3 only where r2b(b2r(addr) + 3) is addr + 3; a JSR that
\* ends a moved region (d, s, L) continues at r2b(d + L).  The decode stops
\* the program when the default hook's assert fails or r is not an address.
C10_ContinuationIsTranslated ==
    (JsrDecoded \/ JsrAborted) =>
        IF JsrAborts(last.arg)
        THEN JsrAborted
        ELSE /\ JsrDecoded
             /\ last.result[1] = ContinuationOf(last.arg, ReturnedBy(last.arg))

\* A JSR with no hook that is the last instruction of a moved region: the
\* trace continues, and not at addr + 3.
C10_Witness ==
    /\ JsrDecoded
    /\ HookOf(last.arg) = "simple"
    /\ move_id_for_binary_addr[last.arg] # base_move_id
    /\ LET m == move_def(move_definitions, move_id_for_binary_addr[last.arg])
       IN  move_source(m) + move_length(m) = last.arg + 3
    /\ last.result[1] # NoneInt
    /\ last.result[1] # last.arg + 3

\* The span of the instruction the last disassemble_instruction decoded held
\* a classified byte before the call.
DecodedOverClassified ==
    /\ last.op = "disassemble_instruction"
    /\ last.class # "unknown"
    /\ \E b \in Addrs : /\ last.arg <= b
                        /\ b < last.arg + opcode_length(last.class)
                        /\ last.cls[b] # None

\* The same instruction raises when nothing of its span is classified.
RaisesWithoutOverlap ==
    raises_at(last.class, last.arg, FALSE) # "none"

\* The successors of the instruction of the given class at addr: none after
\* BRK, the next instruction after LDA #, the fall-through and the translated
\* target after a branch, the continuation and the translated target after a
\* JSR.
SuccessorsOf(class, addr) ==
    CASE class = "Return" -> <<NoneInt>>
      [] class = "Immediate" -> <<addr + 2>>
      [] class = "ConditionalBranch" ->
            <<addr + 2>>
            \o TranslatedUnder(move_id_for_binary_addr[addr],
                               RuntimeOf(addr) + 2
                               + Displacement(memory_binary[addr + 1]))
      [] class = "Jsr" ->
            <<ContinuationOf(addr, ReturnedBy(addr))>>
            \o (IF ResolvedOutside(get_u16(addr + 1)) = <<>> THEN <<>>
                ELSE <<ResolvedOutside(get_u16(addr + 1))[1]>>)

DecodedAcrossTop ==
    /\ last.op = "disassemble_instruction"
    /\ last.class # "unknown"
    /\ last.arg + opcode_length(last.class) > MemSize

\* C11: when tracing reaches an opcode whose operand bytes would lie at or
\* beyond the end of memory, the instruction is rejected: no entry of
\* classifications is written, no reference is added, and that branch of the
\* trace stops (nothing is pushed and the trace goes on).
C11_TopOfMemoryRejected ==
    DecodedAcrossTop =>
        /\ classifications = last.cls
        /\ references = last.refs
        /\ last.result = <<>>
        /\ ~raising

\* C18: load(addr, data) fails if and only if addr + len(data) passes the end
\* of memory or the supplied md5 does not match; an image whose last byte is
\* the last byte of memory is accepted, and a further load call adds its own
\* range.
C18_LoadFailsIff ==
    last.op = "load" =>
        (raising <=> (last.arg + last.len > MemSize \/ ~last.matches))

\* ------------------------------------------------------- constants claims
\* The constants of the list that have the name.
Named(cs, name) == {i \in 1 .. Len(cs) : cs[i].name = name}

\* C12: the constants list holds at most one entry per name; add_constant
\* with a name already present and the same value leaves the list unchanged
\* whatever comment and format are passed, and with a name already present
\* and a different value it is fatal and leaves the list unchanged.
C12_ConstantsUniqueByName ==
    /\ \A n \in ConstantNames : Cardinality(Named(constants, n)) <= 1
    /\ (last.op = "add_constant" /\ Named(last.before, last.name) # {}) =>
          /\ constants = last.before
          /\ raising <=>
                \E i \in Named(last.before, last.name) :
                    last.before[i].value # last.value

\* add_constant was called again with the name and value of a constant of
\* the list and with another comment and format.
C12_Witness ==
    /\ last.op = "add_constant"
    /\ ~raising
    /\ \E i \in Named(last.before, last.name) :
          /\ last.before[i].value = last.value
          /\ last.before[i].comment # last.comment
          /\ last.before[i].format # last.format


\* ------------------------------------------------------------ label claims
\* The optional label of the address has its name among the explicit names
\* of the address's Label.
Materialised(runtime_addr) ==
    \E m \in MoveIds :
        \E n \in Range(label_objects[runtime_addr].explicit_names[m]) :
            n.text = optional_labels[runtime_addr].name

\* A LazyString for the address has returned the optional label's name.
ResolvedAsOptional(runtime_addr) ==
    \E x \in resolved :
        x[1][1] = runtime_addr /\ x[2] = optional_labels[runtime_addr].name

\* The address is the target of a reference or of a get_label call.
Referenced(runtime_addr) ==
    \/ \E lazy \in lazy_names : lazy[1] = runtime_addr
    \/ \E ref \in references : ref[1] = runtime_addr

\* The name is an explicit name, an expression or a local label of a Label.
Appears(name) ==
    \E a \in LabelAddrs :
        \/ name \in all_names(label_objects[a])
        \/ \E m \in MoveIds : \E t \in Range(label_objects[a].local_labels[m]) :
               t[1] = name

\* The move ids whose names are looked at for a reference: the one of the
\* referring address (or the one given), the ones of the target, and BASE.
SearchedMoveIds(lazy) ==
    {IF lazy[3] = NoneInt THEN move_id_for_binary_addr[lazy[2]] ELSE lazy[3]}
    \cup Range(move_ids_for_runtime_addr(move_definitions, move_id_for_binary_addr,
                                         lazy[1]))
    \cup {base_move_id}

\* The names a Label holds for the reference under the searched move ids.
NamesFor(label, lazy) ==
    UNION {{t[1] : t \in {u \in Range(label.local_labels[m]) :
                              u[2] <= lazy[2] /\ lazy[2] < u[3]}}
           \cup {n.text : n \in Range(label.explicit_names[m])}
           \cup Range(label.expressions[m]) : m \in SearchedMoveIds(lazy)}

MaterialisedByResolution(r) ==
    \/ ResolvedAsOptional(r) /\ is_simple_name(optional_labels[r].name)
    \/ \E q \in DOMAIN optional_labels :
           optional_labels[q].base_addr = r /\ ResolvedAsOptional(q)

DefinedTimes(out, addr, name) ==
    Cardinality({i \in 1 .. Len(out) : out[i].addr = addr /\ name \in out[i].names})

\* C14: the first run of emit returns an output in which every explicit
\* name of every label, the names added while emitting included, is defined
\* exactly once.
C14_EveryNameEmittedOnce ==
    (last.op = "emit" /\ Len(outputs) <= 1) =>
        /\ last.ok
        /\ Len(outputs) = 1
        /\ \A r \in LabelAddrs : \A m \in MoveIds :
               \A n \in Range(label_objects[r].explicit_names[m]) :
                   DefinedTimes(outputs[1], r, n.text) = 1

\* C15: the second run of emit returns the output of the first.
C15_EmitIdempotent ==
    (last.op = "emit" /\ Len(outputs) >= 1 /\ (raising \/ Len(outputs) = MaxEmits)) =>
        /\ Len(outputs) = MaxEmits
        /\ outputs[2] = outputs[1]

\* ------------------------------------------------------- string claims
\* The addresses of the loaded range.
LoadedRange ==
    {a \in Addrs : disassembly_range[1] <= a /\ a < disassembly_range[2]}

\* No byte from addr to the end of the loaded range equals the terminator.
NoTerminatorFrom(addr, terminator) ==
    /\ addr \in LoadedRange
    /\ \A b \in LoadedRange : addr <= b => memory_binary[b] # terminator

HasExpression(line) == line.at \in DOMAIN expressions

\* The value the binary holds for the line's operand: the text of a String,
\* the byte of an operand.
ValueInBinary(line) ==
    IF classifications[line.at].k = "string"
    THEN StrValue([i \in 1 .. classifications[line.at].len |->
                      memory_binary[line.at + i - 1]])
    ELSE IntValue(memory_binary[line.at])

\* The constants registered under the name.
ConstantsNamed(name) ==
    {i \in 1 .. Len(constants) : constants[i].name = name}

\* The last line of the listing that shows the expression.
LastUse(e) ==
    CHOOSE i \in 1 .. Len(listing) :
        /\ listing[i].operand = Expression(e)
        /\ \A j \in i + 1 .. Len(listing) : listing[j].operand # Expression(e)

\* C19 as stated: every emitted line whose operand has an expression shows
\* the expression and has the assertion expression == value in the binary
\* recorded, also when the expression is the name of a constant.
C19_Original ==
    \A i \in 1 .. Len(listing) :
        HasExpression(listing[i]) =>
            LET e == expressions[listing[i].at]
            IN  /\ listing[i].operand = Expression(e)
                /\ e \in DOMAIN pending_assertions
                /\ pending_assertions[e] = ValueInBinary(listing[i])

\* C19: every emitted line whose operand has an expression shows the
\* expression in place of the literal. When the expression is not the name
\* of a constant, the assertion kept for it equals the value in the binary
\* at its last use; when it is, no assertion is kept and a constant that is
\* neither CHAR nor STRING has the value in the binary.
C19_ExpressionAsserted ==
    \A i \in 1 .. Len(listing) :
        HasExpression(listing[i]) =>
            LET e == expressions[listing[i].at]
            IN  /\ listing[i].operand = Expression(e)
                /\ IF ConstantsNamed(e) = {}
                   THEN /\ e \in DOMAIN pending_assertions
                        /\ pending_assertions[e] = ValueInBinary(listing[LastUse(e)])
                   ELSE /\ e \notin DOMAIN pending_assertions
                        /\ \A k \in ConstantsNamed(e) :
                              constants[k].format \notin {"CHAR", "STRING"}
                                  => constants[k].value = ValueInBinary(listing[i])

\* Lines have been emitted with an expression that names a constant and with
\* one that does not.
C19_Witness ==
    /\ last.op = "emit_lines"
    /\ \E i, j \in 1 .. Len(listing) :
          /\ HasExpression(listing[i])
          /\ ConstantsNamed(expressions[listing[i].at]) # {}
          /\ HasExpression(listing[j])
          /\ ConstantsNamed(expressions[listing[j].at]) = {}

\* ---------------------------------------------------- round trip claims
\* The bytes of the classification at the address.
BytesAt(addr) ==
    [i \in 1 .. classifications[addr].len |-> memory_binary[addr + i - 1]]

\* C20: the line emitted for a classification assembles to exactly the bytes
\* of the classification's range, also for an absolute instruction whose
\* operand is below 0x100.
C20_RoundTrip ==
    (last.op = "as_string" /\ ~raising) =>
        assemble(last.line, last.arg) = BytesAt(last.arg)

\* ----------------------------------------------------- termination claims
\* C21: the worklist loop of the tracer terminates: once go() has started
\* the trace, the worklist runs empty (or the run ends with an exception);
\* no address is expanded into successors again and again.
C21_TraceTerminates ==
    (phase = "trace") ~> (entry_points = <<>> \/ raising)

\* ------------------------------------------------- name resolution claims
\* The resolution str() last made: the label as it was before, the binary
\* context, the move id the search starts from and the moves that cover the
\* runtime address.
ResolvedLabel == last.objs[last.arg[1]]
ResolvedContext == last.arg[2]
GivenMoveId ==
    IF last.arg[3] = NoneInt THEN move_id_for_binary_addr[last.arg[2]]
    ELSE last.arg[3]
CoveringMoveIds ==
    move_ids_for_runtime_addr(move_definitions, move_id_for_binary_addr, last.arg[1])

\* The move ids in the order their names are looked at: the candidates, or
\* the given id alone when it covers the address, and BASE last.
SearchOrder ==
    IF InSeq(GivenMoveId, CoveringMoveIds) THEN <<GivenMoveId, base_move_id>>
    ELSE <<GivenMoveId>> \o CoveringMoveIds \o <<base_move_id>>

\* The local labels of a move id whose range holds the binary context.
MatchingLocals(m) ==
    SelectSeq(ResolvedLabel.local_labels[m],
              LAMBDA t : t[2] <= ResolvedContext /\ ResolvedContext < t[3])

HasName(m) ==
    \/ MatchingLocals(m) # <<>>
    \/ ResolvedLabel.explicit_names[m] # <<>>
    \/ ResolvedLabel.expressions[m] # <<>>

LocalNames(m) == {t[1] : t \in Range(ResolvedLabel.local_labels[m])}

\* C22: a resolved name that is only a local label's name belongs to a local
\* label whose range holds the binary context; in the first move id of the
\* search that has a name, a matching local label wins over the explicit
\* names, the first registered explicit name wins over the later ones and
\* over the expressions; the names of the move id searched first win over
\* the BASE names; an optional label or a made-up name is returned only when
\* no move id of the search has a name.
C22_Precedence ==
    (last.op = "str" /\ ~raising) =>
        /\ (last.name \in UNION {LocalNames(m) : m \in MoveIds}
               /\ last.name \notin all_names(ResolvedLabel))
           => \E m \in MoveIds : \E i \in 1 .. Len(MatchingLocals(m)) :
                  MatchingLocals(m)[i][1] = last.name
        /\ \A i \in 1 .. Len(SearchOrder) :
              (HasName(SearchOrder[i]) /\ \A j \in 1 .. i - 1 : ~HasName(SearchOrder[j]))
              => LET m == SearchOrder[i]
                 IN  IF MatchingLocals(m) # <<>>
                     THEN last.name = MatchingLocals(m)[1][1]
                     ELSE IF ResolvedLabel.explicit_names[m] # <<>>
                     THEN last.name = ResolvedLabel.explicit_names[m][1].text
                     ELSE last.name = ResolvedLabel.expressions[m][1]
        /\ (\A i \in 1 .. Len(SearchOrder) : ~HasName(SearchOrder[i]))
           => last.name = IF last.arg[1] \in DOMAIN optional_labels
                          THEN optional_labels[last.arg[1]].name
                          ELSE autogenerated_name(last.arg[1])

\* A resolution from outside the range of the local label of move 1, with
\* two explicit names and an expression under move 1 and a name under BASE:
\* the explicit name registered first is returned.
C22_Witness ==
    /\ last.op = "str"
    /\ ~raising
    /\ last.arg = <<3, 4, NoneInt>>
    /\ ResolvedLabel.local_labels[1] # <<>>
    /\ MatchingLocals(1) = <<>>
    /\ Len(ResolvedLabel.explicit_names[1]) >= 2
    /\ ResolvedLabel.explicit_names[1][1].text = NameU
    /\ ResolvedLabel.explicit_names[1][2].text = NameS
    /\ ResolvedLabel.expressions[1] # <<>>
    /\ HasName(base_move_id)
    /\ last.name = NameU

\* ------------------------------------------------------ made-up name claims
\* The name begins with the characters of prefix.
HasPrefix(name, prefix) ==
    Len(name) >= Len(prefix) /\ SubSeq(name, 1, Len(prefix)) = prefix

\* The name without the prefix it may have.
WithoutPrefix(name) ==
    IF HasPrefix(name, <<"s", "u", "b", "_">>) THEN SubSeq(name, 5, Len(name))
    ELSE IF HasPrefix(name, <<"l", "o", "o", "p", "_">>) THEN SubSeq(name, 6, Len(name))
    ELSE name

\* str() has made up a name: the label had no name and no optional label.
MadeUp ==
    /\ last.op = "str"
    /\ ~raising
    /\ all_names(ResolvedLabel) = {}
    /\ last.arg[1] \notin DOMAIN optional_labels

\* The binary addresses the resolved address is referenced from.
RefsToResolved == {y[2] : y \in {x \in references : x[1] = last.arg[1]}}

\* r2b gives the resolved address a binary address that heads an instruction.
StartsInstruction ==
    /\ r2b(last.arg[1]) # <<>>
    /\ classifications[r2b(last.arg[1])[1]].k = "instruction"

EveryRefIsJsr ==
    \A a \in RefsToResolved :
        classifications[a].k = "instruction" /\ memory_binary[a] = \h20

\* The one reference is a branch to the resolved address from distance
\* bytes further on, for a distance in the set.
OneBranchFrom(distances) ==
    /\ Cardinality(RefsToResolved) = 1
    /\ \A a \in RefsToResolved :
          /\ classifications[a].k = "instruction"
          /\ memory_binary[a] = \hD0
          /\ b2r(a) + 2 + signed8(memory_binary[a + 1]) = last.arg[1]
          /\ b2r(a) - last.arg[1] \in distances

\* C23 as stated: sub_ exactly when there are references and all of them are
\* JSRs; otherwise loop_ exactly when the one reference is a branch from a
\* higher address less than loop_limit bytes away.
C23_Original ==
    MadeUp =>
        /\ WithoutPrefix(last.name) =
              (IF StartsInstruction THEN <<"c">> ELSE <<"l">>) \o hex4(last.arg[1])
        /\ HasPrefix(last.name, <<"s", "u", "b", "_">>)
              <=> (RefsToResolved # {} /\ EveryRefIsJsr)
        /\ HasPrefix(last.name, <<"l", "o", "o", "p", "_">>)
              <=> /\ ~(RefsToResolved # {} /\ EveryRefIsJsr)
                  /\ OneBranchFrom(1 .. config_loop_limit - 1)

\* C23: a made-up name is lXXXX when r2b gives no binary address that heads
\* an instruction and cXXXX when it does; a cXXXX name gets sub_ exactly
\* when every reference is a JSR, none at all included; otherwise it gets
\* loop_ exactly when the one reference is a branch to the address from the
\* same or a higher address less than loop_limit bytes away; an lXXXX name
\* gets no prefix.
C23_MadeUpName ==
    MadeUp =>
        /\ WithoutPrefix(last.name) =
              (IF StartsInstruction THEN <<"c">> ELSE <<"l">>) \o hex4(last.arg[1])
        /\ HasPrefix(last.name, <<"s", "u", "b", "_">>)
              <=> (StartsInstruction /\ EveryRefIsJsr)
        /\ HasPrefix(last.name, <<"l", "o", "o", "p", "_">>)
              <=> /\ StartsInstruction
                  /\ ~EveryRefIsJsr
                  /\ OneBranchFrom(0 .. config_loop_limit - 1)

\* A name is made up for an address whose one reference is the branch at
\* that very address: it is a loop.
C23_Witness ==
    /\ MadeUp
    /\ RefsToResolved = {last.arg[1]}
    /\ OneBranchFrom({0})
    /\ last.name = <<"l", "o", "o", "p", "_", "c">> \o hex4(last.arg[1])

\* -------------------------------------------------------- move range claims
\* The bytes of a set or list of ranges.
BytesOf(ranges) == UNION {r[1] .. r[2] - 1 : r \in ranges}

\* The list is in ascending order and its ranges are disjoint, hold one
\* move id each, cover the loaded bytes and nothing else, and are maximal.
TilesLoaded(move_ranges, load_ranges) ==
    /\ \A i \in 1 .. Len(move_ranges) : move_ranges[i][1] < move_ranges[i][2]
    /\ \A i \in 1 .. Len(move_ranges) - 1 : move_ranges[i][2] <= move_ranges[i + 1][1]
    /\ BytesOf(Range(move_ranges)) = BytesOf(load_ranges)
    /\ \A i \in 1 .. Len(move_ranges) :
          \A b \in move_ranges[i][1] .. move_ranges[i][2] - 1 :
              move_id_for_binary_addr[b] = move_id_for_binary_addr[move_ranges[i][1]]
    /\ \A i \in 1 .. Len(move_ranges) - 1 :
          \/ move_ranges[i][2] < move_ranges[i + 1][1]
          \/ move_id_for_binary_addr[move_ranges[i][1]]
                # move_id_for_binary_addr[move_ranges[i + 1][1]]

\* C24: calculate_move_ranges returns, for every set of load ranges (none
\* included) and every move layout, disjoint ascending ranges of one move
\* id each that cover exactly the loaded bytes and are maximal.
C24_MoveRanges ==
    last.op = "calculate_move_ranges" =>
        ~raising /\ TilesLoaded(last.move_ranges, last.arg)

\* --------------------------------------------------------- isolation claims
\* The ends of the move ranges that lie inside the array.
RangeBoundaries ==
    {b \in Addrs : \E i \in 1 .. Len(calculate_move_ranges) :
                       b \in {calculate_move_ranges[i][1], calculate_move_ranges[i][2]}}

\* The boundaries that fall inside the classification that starts at a.
CutsOf(cls, a) == {b \in RangeBoundaries : a < b /\ b < a + cls[a].len}

\* The length of the piece that starts at p of the classification at a: up
\* to the next cut or to the end of the classification.
PieceLength(cls, a, p) ==
    LET later == {b \in CutsOf(cls, a) : b > p}
    IN  IF later = {} THEN a + cls[a].len - p
        ELSE (CHOOSE b \in later : \A c \in later : b <= c) - p

\* Walking the classifications by their lengths from addr lands on end_addr.
RECURSIVE WalkLandsOn(_, _, _)
WalkLandsOn(cls, addr, end_addr) ==
    IF addr >= end_addr THEN addr = end_addr
    ELSE /\ is_object(cls[addr])
         /\ cls[addr].len > 0
         /\ WalkLandsOn(cls, addr + cls[addr].len, end_addr)

\* The classifications after emit, seen from those before it.
Isolated(before, after) ==
    /\ \A b \in RangeBoundaries : after[b] # inside_a_classification
    /\ \A a \in Addrs :
          is_object(before[a]) =>
              IF CutsOf(before, a) = {}
              THEN after[a] = before[a]
              ELSE \A p \in {a} \cup CutsOf(before, a) :
                       after[p] = Byte(PieceLength(before, a, p))
    /\ \A a \in Addrs :
          (~is_object(before[a]) /\ a \notin RangeBoundaries) => after[a] = before[a]
    /\ \A i \in 1 .. Len(calculate_move_ranges) :
          WalkLandsOn(after, calculate_move_ranges[i][1], calculate_move_ranges[i][2])

\* C25: emit leaves every move-range boundary on a classification boundary;
\* a classification a boundary falls into is replaced by byte runs that
\* meet at the boundaries and whose lengths sum to its length, every other
\* classification is unchanged, and the walk of every move range by
\* classification lengths ends on the end of the range.
C25_Isolated ==
    [][last'.op = "emit" => Isolated(classifications, classifications')]_vars

\* emit has run on a classification that two boundaries fall into.
C25_Witness ==
    /\ last.op = "emit"
    /\ last.ok
    /\ \E a \in Addrs :
          /\ classifications[a] = Byte(1)
          /\ classifications[a + 1] = Byte(1)
          /\ classifications[a + 2] = Byte(2)
          /\ {a + 1, a + 2} \subseteq RangeBoundaries
          /\ move_id_for_binary_addr[a] = base_move_id
          /\ move_id_for_binary_addr[a + 1] # base_move_id
          /\ move_id_for_binary_addr[a + 2] = base_move_id

\* ------------------------------------------------------ idempotence claims
\* C26: resolving the same (runtime address, binary address, move id) again
\* returns the name of the first resolution, with or without a user label
\* maker: no reference has resolved to two names.
C26_ResolutionIdempotent ==
    \A p \in resolved, q \in resolved : p[1] = q[1] => p[2] = q[2]

\* ------------------------------------------------------- consistency claims
\* The pair r2b returned names the owner of its binary address, and b2r maps
\* the binary address back to the runtime address r2b was given.
R2bAgreesWithB2r ==
    (last.op = "r2b" /\ last.val # <<>>) =>
        /\ move_id_for_binary_addr[last.val[1]] = last.val[2]
        /\ b2r(last.val[1]) = last.arg

\* r2b of the runtime address of a binary address, called inside moved() of
\* the owner of the binary address, returns the binary address.
R2bInvertsB2r ==
    last.op = "r2b" =>
        \A b \in Addrs :
            (/\ active_move_ids # <<>>
             /\ active_move_ids[Len(active_move_ids)] = move_id_for_binary_addr[b]
             /\ b2r_assert(move_definitions, move_id_for_binary_addr, b)
             /\ b2r(b) = last.arg)
            => last.val = <<b, move_id_for_binary_addr[b]>>

\* C27: whenever r2b(r) returns a pair (b, id), id owns b and b2r(b) = r; and
\* for every binary address b, r2b(b2r(b)) inside moved(owner of b) is b.
C27_R2bConsistent == R2bAgreesWithB2r /\ R2bInvertsB2r

\* ------------------------------------------------------ branch range claims
\* C28: the target of every conditional branch the tracer decodes, which is
\* registered as a reference and handed to r2b, is a runtime address: none
\* is negative and none is past the end of the address space.
C28_BranchTargetInRange ==
    \A x \in references :
        (/\ is_loaded(x[2])
         /\ opcode_class(memory_binary[x[2]]) = "ConditionalBranch")
        => is_valid_addr(x[1])

\* -------------------------------------------------------- cpu state claims
Registers == {"a", "x", "y"}

Mnemonic(opcode_value) == opcode_updates[opcode_value][1]
Mode(opcode_value) == opcode_updates[opcode_value][2]

\* The register the mnemonic names (LDA, TAX, INY, PLA ...), "none" if it
\* writes none of A, X and Y.
LoadedRegister(opcode_value) ==
    CASE Mnemonic(opcode_value) = "LDA" -> "a"
      [] Mnemonic(opcode_value) = "LDX" -> "x"
      [] Mnemonic(opcode_value) = "LDY" -> "y"
      [] OTHER -> "none"

\* The registers the 6502 instruction overwrites with a value that is not
\* known statically: loads from memory, pulls, the stack pointer, results of
\* the arithmetic and logic unit.
OverwrittenUnknown(opcode_value) ==
    CASE Mnemonic(opcode_value) \in {"LDA", "LDX", "LDY"} ->
            IF Mode(opcode_value) = "immediate" THEN {}
            ELSE {LoadedRegister(opcode_value)}
      [] Mnemonic(opcode_value) \in {"PLA", "ADC", "SBC", "ORA", "ASL A"} -> {"a"}
      [] Mnemonic(opcode_value) = "TSX" -> {"x"}
      [] OTHER -> {}

\* <<source, destination>> of a transfer instruction.
TransferOf(opcode_value) ==
    CASE Mnemonic(opcode_value) = "TXA" -> <<"x", "a">>
      [] Mnemonic(opcode_value) = "TYA" -> <<"y", "a">>
      [] Mnemonic(opcode_value) = "TAX" -> <<"a", "x">>
      [] Mnemonic(opcode_value) = "TAY" -> <<"a", "y">>
      [] OTHER -> <<"none", "none">>

\* <<register, step>> of an increment or decrement of a register.
StepOf(opcode_value) ==
    CASE Mnemonic(opcode_value) = "INX" -> <<"x", 1>>
      [] Mnemonic(opcode_value) = "INY" -> <<"y", 1>>
      [] Mnemonic(opcode_value) = "DEX" -> <<"x", 255>>
      [] Mnemonic(opcode_value) = "DEY" -> <<"y", 255>>
      [] OTHER -> <<"none", 0>>

\* The registers the instruction writes at all.
Written(opcode_value) ==
    (OverwrittenUnknown(opcode_value)
        \cup {LoadedRegister(opcode_value), TransferOf(opcode_value)[2],
              StepOf(opcode_value)[1]}) \ {"none"}

\* After an instruction that overwrites a register with a value not known
\* statically the tracked value of the register is unknown.
OverwrittenIsUnknown ==
    last.op = "update_cpu_state" =>
        \A reg \in OverwrittenUnknown(last.opcode) : state[reg][1] = NoneInt

\* A tracked value is a byte, and it is known after an instruction only as
\* the operand of an immediate load of the register, as the known value a
\* transfer copies, as the known value stepped by one modulo 256, or as the
\* value the register had before an instruction that does not write it.
KnownIsDerived ==
    last.op = "update_cpu_state" =>
        \A reg \in Registers :
            state[reg][1] # NoneInt =>
                /\ state[reg][1] \in 0 .. 255
                /\ \/ /\ LoadedRegister(last.opcode) = reg
                      /\ Mode(last.opcode) = "immediate"
                      /\ state[reg][1] = memory_binary[last.addr + 1]
                   \/ /\ TransferOf(last.opcode)[2] = reg
                      /\ last.before[TransferOf(last.opcode)[1]][1] # NoneInt
                      /\ state[reg][1] = last.before[TransferOf(last.opcode)[1]][1]
                   \/ /\ StepOf(last.opcode)[1] = reg
                      /\ last.before[reg][1] # NoneInt
                      /\ state[reg][1] =
                            (last.before[reg][1] + StepOf(last.opcode)[2]) % 256
                   \/ /\ reg \notin Written(last.opcode)
                      /\ state[reg] = last.before[reg]

\* An opcode without an update function and a conditional branch clear the
\* whole state.
NoUpdateClears ==
    (/\ last.op = "update_cpu_state"
     /\ opcode_updates[last.opcode][3] \in {"none", "branch"})
    => state = CpuState

\* C29: the cpu state is sound for A, X and Y: a register an instruction
\* overwrites with a value not known statically is tracked as unknown, a
\* known tracked value derives from an immediate load through transfers,
\* increments and decrements modulo 256, and an opcode without an update
\* function or a conditional branch clears the whole state.
C29_RegistersSound == OverwrittenIsUnknown /\ KnownIsDerived /\ NoUpdateClears

\* ---------------------------------------------------- output position claims
\* The output position the first n directives imply: code_start sets it to
\* its start address, a classification advances it by its length (so a
\* pseudopc block advances it by the length of the block).
RECURSIVE PositionAfter(_, _)
PositionAfter(d, n) ==
    IF n = 0 THEN NoneInt
    ELSE IF d[n].k = "code_start" THEN d[n].addr
    ELSE IF d[n].k = "classification" /\ PositionAfter(d, n - 1) # NoneInt
    THEN PositionAfter(d, n - 1) + d[n].len
    ELSE PositionAfter(d, n - 1)

\* The index in d of the first line of the body of the move range.
BodyStart(d, range) ==
    CHOOSE n \in 1 .. Len(d) : d[n].k = "classification" /\ d[n].addr = range[1]

\* The position is the start address of every move range when its body is
\* emitted.
PositionAtBody(d, move_ranges) ==
    \A i \in 1 .. Len(move_ranges) :
        PositionAfter(d, BodyStart(d, move_ranges[i]) - 1) = move_ranges[i][1]

\* A code_start is emitted at the very beginning and for every range that
\* does not start where the range before it ended, whatever its move id.
CodeStartWhereNeeded(d, move_ranges) ==
    /\ move_ranges # <<>> =>
          d[1] = code_start(move_ranges[1][1], move_ranges[1][2], TRUE)
    /\ \A i \in 2 .. Len(move_ranges) :
          move_ranges[i][1] # move_ranges[i - 1][2] =>
              \E n \in 1 .. BodyStart(d, move_ranges[i]) - 1 :
                  /\ d[n].k = "code_start"
                  /\ d[n].addr = move_ranges[i][1]
                  /\ n > BodyStart(d, move_ranges[i - 1])

\* Every pseudopc_start is closed by a pseudopc_end with the same arguments
\* before the next range begins: only the lines of the block are between.
PseudopcClosed(d) ==
    \A n \in 1 .. Len(d) :
        d[n].k = "pseudopc_start" =>
            \E e \in n + 1 .. Len(d) :
                /\ d[e] = pseudopc_end(d[n].dest, d[n].addr, d[n].len, d[n].move_id)
                /\ \A j \in n + 1 .. e - 1 :
                      /\ d[j].k = "classification"
                      /\ d[n].addr <= d[j].addr
                      /\ d[j].addr < d[n].addr + d[n].len

=============================================================================
